---- MODULE Spec2Model ----
(***************************************************************************)
(* Model of src/jtbot.py: the ingestion pipeline (JTBot.handle_new_message *)
(* with its dedup and cooldown caches, blacklist, filters and keyword      *)
(* matcher), the outbound dispatch (JTBot._auto_send_dm with the outbound  *)
(* account pool, the sent registry and the dispatch log), the account      *)
(* status operations of DMAccountManager and KeywordManager.add_keywords,  *)
(* and, each on its own, the status classifier and the account selection   *)
(* of DMAccountManager, the sent registry of DMRecordManager, the          *)
(* BlacklistManager, the DMTemplateManager with the rendering of a text    *)
(* template, the two record logs, the configuration handlers of the admin  *)
(* bot, the batched probing of the outbound identities, the user filter    *)
(* of FilterManager, the start loop of the monitoring identities           *)
(* (JTBot.start_multi_account_clients) and the sticker choice of           *)
(* DMStickerManager.                                                       *)
(*                                                                         *)
(* Text is a sequence of one-character strings.  The program runs on one   *)
(* asyncio event loop: a step of the model is the code between two         *)
(* suspension points (await) of one coroutine.                             *)
(*                                                                         *)
(* Time: nowMin is time.time()/datetime.now() in minutes (the unit of the  *)
(* cooldown setting; the dedup ttl of 300 s is 5 minutes), nowHour is      *)
(* datetime.now() in hours since midnight of day 0 (the unit of the reset  *)
(* window and of the active hours).                                        *)
(***************************************************************************)
EXTENDS Integers, Sequences, FiniteSets, TLC

VARIABLES
    keywords,        \* KeywordManager.keywords: list of keywords
    kwCall,          \* the last add_keywords call: [pre, arg, ret], or NoCall
    nowMin,          \* wall clock of the ingestion pipeline, in minutes
    processed,       \* JTBot.processed_messages: TTLCache, oldest entry first
    cooldown,        \* JTBot.cooldown_cache: TTLCache, oldest entry first
    cooldownTtl,     \* the ttl the cooldown cache was created with, in minutes
    settings,        \* FilterManager.settings
    blockedUsers,    \* BlacklistManager._user_ids
    blockedChats,    \* BlacklistManager._chat_ids
    blUsers,         \* BlacklistManager.users: the user ids of the entries, in order
    blChats,         \* BlacklistManager.chats: the chat ids of the entries, in order
    filtered,        \* JTBot.stats['filtered_count']
    inbox,           \* the message events the monitored chats produce
    handlers,        \* one handle_new_message coroutine per (monitor, event)
    alerts,          \* alerts published to the monitor chat, in order
    records,         \* RecordManager.records
    spawned,         \* dispatch tasks created by asyncio.create_task, in order
    dropped,         \* history: cache keys lost to eviction or re-creation
    nowHour,         \* wall clock of the dispatch scheduler, in hours
    accounts,        \* DMAccountManager.accounts: list of account records
    dmClients,       \* JTBot.dm_clients: phone -> connected?
    dmSettings,      \* DMSettingsManager.settings
    templates,       \* DMTemplateManager.templates: the template ids
    sentUsers,       \* DMRecordManager.sent_users: user -> time of last send
    dmRecords,       \* DMRecordManager.records
    tasks,           \* the _auto_send_dm coroutines
    sendLog,         \* history: outbound sends the transport executed
    cleared,         \* history: how often the sent registry was cleared
    reply,           \* the text of the reply a status probe received
    verdict,         \* what detect_status_from_spambot returned for it
    availCall,       \* the last get_available_accounts call: [pre, today, limit, ret]
    sentLog,         \* history of the sent registry: last add per user, last query
    tplList,         \* DMTemplateManager.templates: the list, as [id, made]
    issued,          \* history: the ids add_template returned, in order
    tplUsed,         \* history: the templates dispatch records were written for
    lastCall,        \* the last call of an operation modelled on its own, or NoOp
    probes,          \* a batched probing run: the position of each probe
    clients,         \* JTBot.clients: how each monitoring identity was registered
    startPhone,      \* the variable phone of start_multi_account_clients
    stickers         \* DMStickerManager and its get_random_sticker call

vars == << keywords, kwCall, nowMin, processed, cooldown, cooldownTtl, settings,
           blockedUsers, blockedChats, blUsers, blChats, filtered, inbox, handlers,
           alerts, records, spawned, dropped, nowHour, accounts, dmClients, dmSettings,
           templates, sentUsers, dmRecords, tasks, sendLog, cleared,
           reply, verdict, availCall, sentLog, tplList, issued, tplUsed,
           lastCall, probes, clients, startPhone, stickers >>

ingestVars == << nowMin, processed, cooldown, cooldownTtl, settings, blockedUsers,
                 blockedChats, blUsers, blChats, filtered, inbox, handlers, alerts,
                 records, spawned, dropped >>

dispatchVars == << nowHour, accounts, dmClients, dmSettings, templates,
                   sentUsers, dmRecords, tasks, sendLog, cleared >>

kwVars == << keywords, kwCall >>

\* the state of the components that are modelled on their own
libVars == << reply, verdict, availCall, sentLog, tplList, issued, tplUsed,
             lastCall, probes, clients, startPhone, stickers >>

\* the state of the components other than the classifier and the account
\* selection
restVars == << sentLog, tplList, issued, tplUsed, lastCall, probes, clients, startPhone, stickers >>

----------------------------------------------------------------------------
(* Text helpers *)

Range(s) == { s[i] : i \in 1..Len(s) }

UpperCase == << "A", "B", "C", "D", "E", "F", "G", "H", "I", "J", "K", "L", "M",
               "N", "O", "P", "Q", "R", "S", "T", "U", "V", "W", "X", "Y", "Z" >>
LowerCase == << "a", "b", "c", "d", "e", "f", "g", "h", "i", "j", "k", "l", "m",
               "n", "o", "p", "q", "r", "s", "t", "u", "v", "w", "x", "y", "z" >>

\* str.lower() on the characters the model uses: the other characters of
\* the model have no upper case
LowerChar(c) ==
    IF \E i \in 1..26 : UpperCase[i] = c
    THEN LowerCase[CHOOSE i \in 1..26 : UpperCase[i] = c]
    ELSE c

Lower(s) == [ i \in 1..Len(s) |-> LowerChar(s[i]) ]

\* Python's `sub in s` on strings
Contains(sub, s) ==
    \E i \in 0..(Len(s) - Len(sub)) : SubSeq(s, i + 1, i + Len(sub)) = sub

\* str.strip(): leading and trailing whitespace removed
RECURSIVE LStrip(_)
LStrip(s) == IF s # << >> /\ Head(s) = " " THEN LStrip(Tail(s)) ELSE s

RECURSIVE RStrip(_)
RStrip(s) ==
    IF s # << >> /\ s[Len(s)] = " " THEN RStrip(SubSeq(s, 1, Len(s) - 1)) ELSE s

Strip(s) == RStrip(LStrip(s))

\* n copies of the character c
Rep(c, n) == [ i \in 1..n |-> c ]

----------------------------------------------------------------------------
(* KeywordManager *)

MaxKeywordLen == 10

\* the loop body without the length check of line 254
AddOneSkipsLengthCheck(st, raw) ==
    LET keyword == Strip(raw)
    IN  IF keyword # << >> /\ keyword \notin Range(st.kws)
        THEN [ kws |-> Append(st.kws, keyword), added |-> st.added + 1 ]
        ELSE st

\* a loop body that puts the new keyword in front
AddOnePrepends(st, raw) ==
    LET keyword == Strip(raw)
    IN  IF Len(keyword) > MaxKeywordLen
        THEN st
        ELSE IF keyword # << >> /\ keyword \notin Range(st.kws)
             THEN [ kws |-> << keyword >> \o st.kws, added |-> st.added + 1 ]
             ELSE st

\* the loop body of add_keywords for one keyword: st = [kws, added]
AddOne(st, raw) ==
    LET keyword == Strip(raw)
    IN  IF Len(keyword) > MaxKeywordLen
        THEN st
        ELSE IF keyword # << >> /\ keyword \notin Range(st.kws)
             THEN [ kws |-> Append(st.kws, keyword), added |-> st.added + 1 ]
             ELSE st

RECURSIVE AddLoop(_, _)
AddLoop(st, raws) ==
    IF raws = << >> THEN st ELSE AddLoop(AddOne(st, Head(raws)), Tail(raws))

\* add_keywords(keywords): [kws |-> the list afterwards, added |-> the return value]
AddKeywordsResult(kws, raws) == AddLoop([ kws |-> kws, added |-> 0 ], raws)

\* KeywordManager.match(text): the configured keywords contained in text,
\* compared in lower case, in list order
Match(kws, text) ==
    IF text = << >> THEN << >>
    ELSE SelectSeq(kws, LAMBDA k : Contains(Lower(k), Lower(text)))

NoCall == [ pre |-> << >>, arg |-> << >>, ret |-> 0 ]

\* no operation modelled on its own was called yet
NoOp == [ op |-> "none", n |-> 0 ]

\* candidate keywords of an add_keywords call: lengths around the limit,
\* bare and with a blank on both sides
KwBodies == { Rep("a", 0), Rep("a", 1), Rep("b", 10), Rep("a", 11) }

KwCandidates == KwBodies \cup { << " " >> \o b \o << " " >> : b \in KwBodies }

MaxCallLen == 2
MaxKeywords == 2

KwCalls == UNION { [ 1..n -> KwCandidates ] : n \in 1..MaxCallLen }

AddKeywords(raws) ==
    /\ Len(keywords) < MaxKeywords
    /\ LET res == AddKeywordsResult(keywords, raws)
       IN  /\ keywords' = res.kws
           /\ kwCall' = [ pre |-> keywords, arg |-> raws, ret |-> res.added ]
    /\ UNCHANGED << ingestVars, dispatchVars, libVars >>

\* list.remove(x): the first occurrence is removed
RemoveFirst(s, x) ==
    LET i == CHOOSE j \in 1..Len(s) : s[j] = x /\ \A k \in 1..(j - 1) : s[k] # x
    IN  SubSeq(s, 1, i - 1) \o SubSeq(s, i + 1, Len(s))

RemoveKeyword(k) ==
    /\ k \in Range(keywords)
    /\ keywords' = RemoveFirst(keywords, k)
    /\ kwCall' = NoCall
    /\ UNCHANGED << ingestVars, dispatchVars, libVars >>

----------------------------------------------------------------------------
(* cachetools.TTLCache as the program uses it: a list of [key, at], oldest *)
(* first; an entry is live while now < at + ttl; a store first purges the  *)
(* expired entries and then, when the cache is full, evicts the oldest.    *)

\* the capacity of both caches (maxsize=10000 in the program, scaled down so
\* that a cache fills up) and the ttl of the dedup cache in minutes (ttl=300)
CacheMaxSize == 2
DedupTtl == 5

NoKey == << >>

CacheLive(cache, ttl, now) == SelectSeq(cache, LAMBDA e : now < e.at + ttl)

\* `key in cache`
CacheHas(cache, key, ttl, now) ==
    \E i \in 1..Len(cache) : cache[i].key = key /\ now < cache[i].at + ttl

\* the key a store of `key` evicts for capacity, or NoKey
CacheVictim(cache, key, ttl, now) ==
    LET live == SelectSeq(CacheLive(cache, ttl, now), LAMBDA e : e.key # key)
    IN  IF Len(live) >= CacheMaxSize THEN Head(live).key ELSE NoKey

\* a store that only purges and never records the key
CacheSetForgetsKey(cache, key, ttl, now) == CacheLive(cache, ttl, now)

\* `cache[key] = time.time()`
CacheSet(cache, key, ttl, now) ==
    LET live == SelectSeq(CacheLive(cache, ttl, now), LAMBDA e : e.key # key)
        kept == IF Len(live) >= CacheMaxSize THEN Tail(live) ELSE live
    IN  Append(kept, [ key |-> key, at |-> now ])

----------------------------------------------------------------------------
(* FilterManager *)

DefaultSettings ==
    [ cooldown_minutes |-> 5, max_message_length |-> 100,
      filter_no_username |-> TRUE, filter_no_avatar |-> FALSE,
      min_account_age_days |-> 7 ]

\* A user id is a Python int and may be larger than the integers of the
\* checker: where that matters it is written as [ giga, rest ], which
\* stands for giga * 10^9 + rest with rest below 10^9.
Giga == 1000000000

WideId(n) == [ giga |-> n \div Giga, rest |-> n % Giga ]

\* _estimate_account_age(user_id), lines 450-462, in days, on an id
\* written as [ giga, rest ]
EstimateAccountAgeWide(w) ==
    IF w.giga < 1 THEN 365 * 5
    ELSE IF w.giga < 2 THEN 365 * 2
    ELSE IF w.giga < 5 THEN 180
    ELSE 30

\* _estimate_account_age(user_id), in days
EstimateAccountAge(user_id) == EstimateAccountAgeWide(WideId(user_id))

\* a filter that looks at the avatar before the username
CheckUserFilterAvatarFirst(st, username, photo, w) ==
    IF st.filter_no_avatar /\ ~photo
    THEN [ ok |-> FALSE, reason |-> "no_avatar" ]
    ELSE IF st.filter_no_username /\ username = ""
    THEN [ ok |-> FALSE, reason |-> "no_username" ]
    ELSE IF st.min_account_age_days > 0
            /\ EstimateAccountAgeWide(w) < st.min_account_age_days
    THEN [ ok |-> FALSE, reason |-> "age" ]
    ELSE [ ok |-> TRUE, reason |-> "" ]

\* check_user_filter(user), lines 426-448, on the username, the photo and
\* the id of the user: the pair it returns, the reason by its kind
CheckUserFilterResult(st, username, photo, w) ==
    IF st.filter_no_username /\ username = ""
    THEN [ ok |-> FALSE, reason |-> "no_username" ]
    ELSE IF st.filter_no_avatar /\ ~photo
    THEN [ ok |-> FALSE, reason |-> "no_avatar" ]
    ELSE IF st.min_account_age_days > 0
            /\ EstimateAccountAgeWide(w) < st.min_account_age_days
    THEN [ ok |-> FALSE, reason |-> "age" ]
    ELSE [ ok |-> TRUE, reason |-> "" ]

\* check_user_filter(user): TRUE when the sender passes
CheckUserFilter(st, user) ==
    CheckUserFilterResult(st, user.username, user.photo, WideId(user.id)).ok

----------------------------------------------------------------------------
(* The monitored traffic *)

Monitors == { "m1", "m2" }

Alice == [ id |-> 101, username |-> "alice", photo |-> TRUE ]
Bob   == [ id |-> 102, username |-> "bob", photo |-> FALSE ]
Anon  == [ id |-> 103, username |-> "", photo |-> TRUE ]

\* an event: the message and the monitoring identities that are members
\* of its chat and so receive it
Event(chat, id, sender, text, isUser, seenBy) ==
    [ chat |-> chat, id |-> id, sender |-> sender, text |-> text, isUser |-> isUser,
      seenBy |-> seenBy ]

\* traffic for the dedup and cooldown gates: two messages of one user that
\* pass every filter, the first with both keywords and seen by both
\* monitoring identities, the second with the first keyword only, and a
\* message without text
CooldownTraffic ==
    << Event(10, 1, Alice, << "A", "b", " ", "c" >>, TRUE, Monitors),
       Event(20, 2, Alice, << "x", "a", "B" >>, TRUE, { "m2" }),
       Event(20, 3, Alice, << >>, TRUE, { "m1" }) >>

\* traffic for the filter gates: one message per gate
GateTraffic ==
    << Event(10, 1, Alice, << "A", "b", " ", "c" >>, TRUE, Monitors),
       Event(10, 2, Anon, << "c" >>, TRUE, { "m1" }),
       Event(10, 3, Alice, Rep("c", 101), TRUE, { "m1" }),
       Event(10, 4, Alice, << "x", "y" >>, TRUE, { "m1" }),
       Event(10, 5, Alice, << >>, TRUE, { "m1" }),
       Event(10, 6, Alice, << "c" >>, FALSE, { "m1" }) >>

IngestKeywords == << << "a", "b" >>, << "c" >> >>

\* at most MaxDeliveries events arrive, at most MaxInFlight handlers are
\* suspended at a time
MaxDeliveries == 7
MaxInFlight == 2
MaxMinute == 6

EventIds == 1..Len(inbox)
HandlerIds == { h \in Monitors \X EventIds : h[1] \in inbox[h[2]].seenBy }

MsgKey(ev) == << ev.chat, ev.id >>
CooldownKey(user, keyword) == << user.id, keyword >>

\* a handler: its position (pc), the gate it stopped at, the matched
\* keywords and the index of the one being alerted; history: the keywords
\* skipped for cooldown, the time and ttl of the last cooldown entry it set,
\* the time it received the event
IdleHandler == [ pc |-> "idle", gate |-> "none", matched |-> << >>, ki |-> 0,
                 skipped |-> {}, trig |-> 0, ttl |-> 0, t0 |-> 0 ]

Started == { h \in HandlerIds : handlers[h].pc # "idle" }

\* a loop that never consults the cooldown cache
NextFreeIgnoresCooldown(matched, user, i) == IF i <= Len(matched) THEN i ELSE 0

\* the next index >= i of a matched keyword that is not in cooldown, or 0
NextFree(matched, user, i) ==
    LET free == { j \in i..Len(matched) :
                    ~CacheHas(cooldown, CooldownKey(user, matched[j]), cooldownTtl, nowMin) }
    IN  IF free = {} THEN 0 ELSE CHOOSE j \in free : \A k \in free : j <= k

DroppedBy(cache, name, key, ttl) ==
    LET v == CacheVictim(cache, key, ttl, nowMin)
    IN  IF v = NoKey THEN {} ELSE { [ cache |-> name, key |-> v ] }

\* lines 5281-5288: the cooldown loop from index i up to the next await:
\* keywords in cooldown are skipped, the first free one gets its entry and
\* the handler suspends in the alert; with none left the handler returns
EnterCooldownLoop(h, matched, i) ==
    LET user == inbox[h[2]].sender
        j    == NextFree(matched, user, i)
        skip == { matched[x] : x \in i..((IF j = 0 THEN Len(matched) + 1 ELSE j) - 1) }
    IN  IF j = 0
        THEN /\ handlers' = [ handlers EXCEPT ![h].pc = "done", ![h].gate = "completed",
                                              ![h].matched = matched,
                                              ![h].skipped = @ \cup skip ]
             /\ UNCHANGED << cooldown, dropped >>
        ELSE /\ handlers' = [ handlers EXCEPT ![h].pc = "alert", ![h].matched = matched,
                                              ![h].skipped = @ \cup skip,
                                              ![h].ki = j, ![h].trig = nowMin,
                                              ![h].ttl = cooldownTtl ]
             /\ cooldown' = CacheSet(cooldown, CooldownKey(user, matched[j]),
                                     cooldownTtl, nowMin)
             /\ dropped' = dropped \cup
                    DroppedBy(cooldown, "cooldown", CooldownKey(user, matched[j]), cooldownTtl)

\* an exception that leaves the handler and stops the monitoring identity:
\* the events it has not received yet are never handled
StopAtHaltsMonitor(h, gate) ==
    handlers' = [ x \in HandlerIds |->
                    IF x = h THEN [ handlers[x] EXCEPT !.pc = "done", !.gate = gate ]
                    ELSE IF gate = "error" /\ x[1] = h[1] /\ handlers[x].pc = "idle"
                    THEN [ handlers[x] EXCEPT !.pc = "done", !.gate = "halted" ]
                    ELSE handlers[x] ]

\* the handler returns at a gate; an exception is caught by the handler's
\* own try block (lines 5218 and 5335-5336) and ends it the same way
StopAt(h, gate) ==
    handlers' = [ handlers EXCEPT ![h].pc = "done", ![h].gate = gate ]

\* the ways a NewMessage handler gets registered on a client: by the login
\* flow (lines 2334-2336, 2405-2407) or by the start loop (lines 5147-5149)
Registered == { "login", "start" }

\* the monitor_phone a client's handler passes to handle_new_message: the
\* handler of the login flow closes over the phone of its own call, the
\* handler defined in the start loop closes over the loop's variable and
\* reads it when the event arrives
MonitorPhone(m) == IF clients[m] = "start" THEN startPhone ELSE m

\* lines 5216-5240: an event arrives at a monitoring identity; dedup gate
\* and empty-text return, up to the await of the sender lookup. A monitoring
\* identity receives the messages of one chat in the order of their ids.
Deliver(h) ==
    /\ handlers[h].pc = "idle"
    /\ clients[h[1]] \in Registered
    /\ Cardinality(Started) < MaxDeliveries
    /\ \A e \in 1..(h[2] - 1) :
          ( << h[1], e >> \in HandlerIds /\ inbox[e].chat = inbox[h[2]].chat )
              => handlers[<< h[1], e >>].pc # "idle"
    /\ Cardinality({ x \in HandlerIds : handlers[x].pc \in { "lookup", "alert" } }) < MaxInFlight
    /\ LET ev  == inbox[h[2]]
           key == MsgKey(ev)
           me  == [ handlers[h] EXCEPT !.t0 = nowMin ]
       IN  IF CacheHas(processed, key, DedupTtl, nowMin)
           THEN /\ handlers' = [ handlers EXCEPT ![h] =
                                   [ me EXCEPT !.pc = "done", !.gate = "dedup" ] ]
                /\ UNCHANGED << processed, dropped >>
           ELSE /\ processed' = CacheSet(processed, key, DedupTtl, nowMin)
                /\ dropped' = dropped \cup DroppedBy(processed, "dedup", key, DedupTtl)
                /\ handlers' = [ handlers EXCEPT ![h] =
                                   IF ev.text = << >>
                                   THEN [ me EXCEPT !.pc = "done", !.gate = "empty" ]
                                   ELSE [ me EXCEPT !.pc = "lookup" ] ]
    /\ UNCHANGED << nowMin, cooldown, cooldownTtl, settings, blockedUsers, blockedChats, blUsers, blChats,
                    filtered, inbox, alerts, records, spawned >>
    /\ UNCHANGED << kwVars, dispatchVars, libVars >>

\* the gates without the length check of lines 5262-5265
GateOfSkipsLength(ev) ==
    IF ~ev.isUser THEN "notuser"
    ELSE IF ev.sender.id \in blockedUsers THEN "blacklist"
    ELSE IF ev.chat \in blockedChats THEN "blacklist"
    ELSE IF Match(keywords, ev.text) = << >> THEN "nomatch"
    ELSE IF ~CheckUserFilter(settings, ev.sender) THEN "filter"
    ELSE "none"

\* the gate a message stops at after the sender and chat lookups
\* (lines 5244-5279), or "none"
GateOf(ev) ==
    IF ~ev.isUser THEN "notuser"
    ELSE IF ev.sender.id \in blockedUsers THEN "blacklist"
    ELSE IF ev.chat \in blockedChats THEN "blacklist"
    ELSE IF Len(ev.text) > settings.max_message_length THEN "length"
    ELSE IF Match(keywords, ev.text) = << >> THEN "nomatch"
    ELSE IF ~CheckUserFilter(settings, ev.sender) THEN "filter"
    ELSE "none"

\* a counter that also counts the messages without a keyword
CountedGatesWithNoMatch == { "blacklist", "length", "filter", "nomatch" }

\* the gates that count a message as filtered
CountedGates == { "blacklist", "length", "filter" }

\* lines 5243-5288: get_sender and get_chat return (or raise), then the
\* gates and the cooldown loop up to the await of the first alert
Lookup(h, raised) ==
    /\ handlers[h].pc = "lookup"
    /\ LET ev   == inbox[h[2]]
           gate == GateOf(ev)
       IN  IF raised
           THEN /\ StopAt(h, "error")
                /\ UNCHANGED << filtered, cooldown, dropped >>
           ELSE IF gate # "none"
           THEN /\ StopAt(h, gate)
                /\ filtered' = IF gate \in CountedGates THEN filtered + 1 ELSE filtered
                /\ UNCHANGED << cooldown, dropped >>
           ELSE /\ EnterCooldownLoop(h, Match(keywords, ev.text), 1)
                /\ UNCHANGED filtered
    /\ UNCHANGED << nowMin, processed, cooldownTtl, settings, blockedUsers, blockedChats, blUsers, blChats,
                    inbox, alerts, records, spawned >>
    /\ UNCHANGED << kwVars, dispatchVars, libVars >>

MaxRecords == 10000

\* a log that drops the entry just added when it is full
AddRecordKeepsOldest(recs, r) ==
    LET all == Append(recs, r)
    IN  IF Len(all) > MaxRecords THEN SubSeq(all, 1, MaxRecords) ELSE all

\* RecordManager.add_record: append, keep the newest MaxRecords
AddRecord(recs, r) ==
    LET all == Append(recs, r)
    IN  IF Len(all) > MaxRecords
        THEN SubSeq(all, Len(all) - MaxRecords + 1, Len(all))
        ELSE all

\* lines 5292-5333 and back to 5282-5288: the alert is published (or the
\* alert sink raises), the record is saved, the dispatch task is created
\* and the loop goes on to the next matched keyword
PublishAlert(h, raised) ==
    /\ handlers[h].pc = "alert"
    /\ LET ev   == inbox[h[2]]
           me   == handlers[h]
           item == [ mon |-> h[1], ev |-> h[2], user |-> ev.sender.id,
                     keyword |-> me.matched[me.ki], trig |-> me.trig,
                     ttl |-> me.ttl, monitor_account |-> MonitorPhone(h[1]) ]
       IN  IF raised
           THEN /\ StopAt(h, "error")
                /\ UNCHANGED << alerts, records, spawned, cooldown, dropped >>
           ELSE /\ alerts' = Append(alerts, item)
                /\ records' = AddRecord(records, item)
                /\ spawned' = Append(spawned, item)
                /\ EnterCooldownLoop(h, me.matched, me.ki + 1)
    /\ UNCHANGED << nowMin, processed, cooldownTtl, settings, blockedUsers, blockedChats, blUsers, blChats,
                    filtered, inbox >>
    /\ UNCHANGED << kwVars, dispatchVars, libVars >>

\* block_user / block_chat callbacks: BlacklistManager.add_user, add_chat
MaxBlocks == 1

BlacklistFrame ==
    /\ UNCHANGED << nowMin, processed, cooldown, cooldownTtl, settings, filtered, inbox,
                    handlers, alerts, records, spawned, dropped >>
    /\ UNCHANGED << kwVars, dispatchVars, libVars >>

\* the position of id in the list, or 0
PosOf(list, id) ==
    IF \E i \in 1..Len(list) : list[i] = id
    THEN CHOOSE i \in 1..Len(list) : list[i] = id /\ \A j \in 1..(i - 1) : list[j] # id
    ELSE 0

\* list.pop(i)
Pop(list, i) == SubSeq(list, 1, i - 1) \o SubSeq(list, i + 1, Len(list))

\* BlacklistManager.add_user, lines 639-652
AddUser(u) ==
    /\ IF u \in blockedUsers
       THEN UNCHANGED << blUsers, blockedUsers >>
       ELSE /\ blUsers' = Append(blUsers, u)
            /\ blockedUsers' = blockedUsers \cup { u }
    /\ UNCHANGED << blChats, blockedChats >>
    /\ BlacklistFrame

\* BlacklistManager.add_chat, lines 654-667
AddChat(c) ==
    /\ IF c \in blockedChats
       THEN UNCHANGED << blChats, blockedChats >>
       ELSE /\ blChats' = Append(blChats, c)
            /\ blockedChats' = blockedChats \cup { c }
    /\ UNCHANGED << blUsers, blockedUsers >>
    /\ BlacklistFrame

\* a removal that forgets the lookup set
RemoveUserKeepsLookup(u) ==
    /\ IF PosOf(blUsers, u) = 0
       THEN UNCHANGED << blUsers, blockedUsers >>
       ELSE /\ blUsers' = Pop(blUsers, PosOf(blUsers, u))
            /\ UNCHANGED blockedUsers
    /\ UNCHANGED << blChats, blockedChats >>
    /\ BlacklistFrame

\* BlacklistManager.remove_user, lines 669-677
RemoveUser(u) ==
    /\ IF PosOf(blUsers, u) = 0
       THEN UNCHANGED << blUsers, blockedUsers >>
       ELSE /\ blUsers' = Pop(blUsers, PosOf(blUsers, u))
            /\ blockedUsers' = blockedUsers \ { u }
    /\ UNCHANGED << blChats, blockedChats >>
    /\ BlacklistFrame

\* BlacklistManager.remove_chat, lines 679-687
RemoveChat(c) ==
    /\ IF PosOf(blChats, c) = 0
       THEN UNCHANGED << blChats, blockedChats >>
       ELSE /\ blChats' = Pop(blChats, PosOf(blChats, c))
            /\ blockedChats' = blockedChats \ { c }
    /\ UNCHANGED << blUsers, blockedUsers >>
    /\ BlacklistFrame

\* BlacklistManager.clear_users, lines 697-701
ClearUsers ==
    /\ blUsers' = << >>
    /\ blockedUsers' = {}
    /\ UNCHANGED << blChats, blockedChats >>
    /\ BlacklistFrame

\* BlacklistManager.clear_chats, lines 703-707
ClearChats ==
    /\ blChats' = << >>
    /\ blockedChats' = {}
    /\ UNCHANGED << blUsers, blockedUsers >>
    /\ BlacklistFrame

\* the block_user callback of an alert: add_user for a user not yet blocked
BlockUser(u) ==
    /\ u \notin blockedUsers
    /\ Cardinality(blockedUsers) + Cardinality(blockedChats) < MaxBlocks
    /\ AddUser(u)

\* the block_chat callback of an alert: add_chat for a chat not yet blocked
BlockChat(c) ==
    /\ c \notin blockedChats
    /\ Cardinality(blockedUsers) + Cardinality(blockedChats) < MaxBlocks
    /\ AddChat(c)

\* a range check that lets 0 through
SetCooldownFromZero(minutes) ==
    IF 0 <= minutes /\ minutes <= 60
    THEN /\ settings' = [ settings EXCEPT !.cooldown_minutes = minutes ]
         /\ cooldown' = << >>
         /\ cooldownTtl' = minutes
         /\ dropped' = dropped \cup
              { [ cache |-> "cooldown", key |-> e.key ] :
                  e \in Range(CacheLive(cooldown, cooldownTtl, nowMin)) }
    ELSE UNCHANGED << settings, cooldown, cooldownTtl, dropped >>

\* a new window that is stored while the cache and its entries stay
SetCooldownKeepsCache(minutes) ==
    IF 1 <= minutes /\ minutes <= 60
    THEN /\ settings' = [ settings EXCEPT !.cooldown_minutes = minutes ]
         /\ UNCHANGED << cooldown, cooldownTtl, dropped >>
    ELSE UNCHANGED << settings, cooldown, cooldownTtl, dropped >>

\* receive_cooldown, lines 2622-2631, on the number read: a valid value is
\* stored and the cooldown cache is re-created empty with the new ttl
SetCooldown(minutes) ==
    IF 1 <= minutes /\ minutes <= 60
    THEN /\ settings' = [ settings EXCEPT !.cooldown_minutes = minutes ]
         /\ cooldown' = << >>
         /\ cooldownTtl' = minutes
         /\ dropped' = dropped \cup
              { [ cache |-> "cooldown", key |-> e.key ] :
                  e \in Range(CacheLive(cooldown, cooldownTtl, nowMin)) }
    ELSE UNCHANGED << settings, cooldown, cooldownTtl, dropped >>

\* receive_cooldown with a number (the values sent here differ from the
\* one in force)
ReceiveCooldown(minutes) ==
    /\ minutes # cooldownTtl
    /\ SetCooldown(minutes)
    /\ UNCHANGED << nowMin, processed, blockedUsers, blockedChats, blUsers, blChats, filtered, inbox,
                    handlers, alerts, records, spawned >>
    /\ UNCHANGED << kwVars, dispatchVars, libVars >>

MinuteSteps == { 3 }

TickMinute(d) ==
    /\ nowMin + d <= MaxMinute
    /\ nowMin' = nowMin + d
    /\ UNCHANGED << processed, cooldown, cooldownTtl, settings, blockedUsers, blockedChats, blUsers, blChats,
                    filtered, inbox, handlers, alerts, records, spawned, dropped >>
    /\ UNCHANGED << kwVars, dispatchVars, libVars >>

----------------------------------------------------------------------------
(* DMAccountManager: the outbound account pool *)

Phones == { "p1", "p2" }

Statuses == { "unknown", "active", "restricted", "spam", "banned", "frozen", "failed" }

NoDate == -1

\* the day of an hour stamp: datetime.now().date()
DayOf(hour) == hour \div 24

\* the hour of day of an hour stamp: datetime.now().hour
HourOfDay(hour) == hour % 24

HasAccount(accs, phone) == \E i \in 1..Len(accs) : accs[i].phone = phone

\* the first account with this phone (the loops of the manager break on it)
IndexOf(accs, phone) ==
    CHOOSE i \in 1..Len(accs) :
        accs[i].phone = phone /\ \A k \in 1..(i - 1) : accs[k].phone # phone

\* add_account(phone, ..., status, ...), lines 825-862
AddAccount(accs, phone, status) ==
    IF HasAccount(accs, phone)
    THEN [ accs EXCEPT ![IndexOf(accs, phone)].status = status ]
    ELSE Append(accs, [ phone |-> phone, status |-> status,
                        can_send_dm |-> (status = "active"),
                        daily_sent |-> 0, last_sent_date |-> NoDate ])

\* remove_account(phone), lines 864-871
RemoveAccount(accs, phone) ==
    IF HasAccount(accs, phone)
    THEN SubSeq(accs, 1, IndexOf(accs, phone) - 1)
           \o SubSeq(accs, IndexOf(accs, phone) + 1, Len(accs))
    ELSE accs

\* update_account_status(phone, status, can_send_dm), lines 908-919;
\* can is << >> when the argument is left out, << b >> when it is b
UpdateAccountStatus(accs, phone, status, can) ==
    IF HasAccount(accs, phone)
    THEN [ accs EXCEPT ![IndexOf(accs, phone)].status = status,
                       ![IndexOf(accs, phone)].can_send_dm =
                            IF can # << >> THEN can[1] ELSE (status = "active") ]
    ELSE accs

\* a reset that clears the counter and forgets to stamp the date
LazyResetKeepsDate(accs, today) ==
    [ i \in 1..Len(accs) |->
        IF accs[i].status # "active" \/ ~accs[i].can_send_dm THEN accs[i]
        ELSE IF accs[i].last_sent_date # today
             THEN [ accs[i] EXCEPT !.daily_sent = 0 ]
             ELSE accs[i] ]

\* the lazy reset of get_available_accounts, lines 889-901: every account
\* that passes the status test has its counter refreshed for today
LazyReset(accs, today) ==
    [ i \in 1..Len(accs) |->
        IF accs[i].status # "active" \/ ~accs[i].can_send_dm THEN accs[i]
        ELSE IF accs[i].last_sent_date # today
             THEN [ accs[i] EXCEPT !.daily_sent = 0, !.last_sent_date = today ]
             ELSE accs[i] ]

\* a selection that lets an account at its limit through
AvailableAtLimit(accs, today, limit) ==
    SelectSeq(LazyReset(accs, today),
              LAMBDA a : a.status = "active" /\ a.can_send_dm /\ a.daily_sent <= limit)

\* get_available_accounts(daily_limit), lines 884-906: the returned list
Available(accs, today, limit) ==
    SelectSeq(LazyReset(accs, today),
              LAMBDA a : a.status = "active" /\ a.can_send_dm /\ a.daily_sent < limit)

\* a count that goes on from the count of an earlier day
IncrementSentCountNoReset(accs, phone, today) ==
    IF HasAccount(accs, phone)
    THEN LET i == IndexOf(accs, phone)
         IN  [ accs EXCEPT ![i].last_sent_date = today,
                           ![i].daily_sent = accs[i].daily_sent + 1 ]
    ELSE accs

\* increment_sent_count(phone), lines 921-931
IncrementSentCount(accs, phone, today) ==
    IF HasAccount(accs, phone)
    THEN LET i   == IndexOf(accs, phone)
             cur == IF accs[i].last_sent_date # today THEN 0 ELSE accs[i].daily_sent
         IN  [ accs EXCEPT ![i].last_sent_date = today, ![i].daily_sent = cur + 1 ]
    ELSE accs

MaxIncrements == 3

\* a call of increment_sent_count(phone) on its own
IncrementSent(phone) ==
    /\ lastCall.n < MaxIncrements
    /\ accounts' = IncrementSentCount(accounts, phone, DayOf(nowHour))
    /\ lastCall' = [ op |-> "increment_sent_count", n |-> lastCall.n + 1,
                     phone |-> phone, today |-> DayOf(nowHour), pre |-> accounts ]
    /\ UNCHANGED << nowHour, dmClients, dmSettings, templates, sentUsers, dmRecords,
                    tasks, sendLog, cleared >>
    /\ UNCHANGED << kwVars, ingestVars >>
    /\ UNCHANGED << reply, verdict, availCall, sentLog, tplList, issued, tplUsed,
                    probes, clients, startPhone, stickers >>

NoAvailCall == [ pre |-> << >>, today |-> NoDate, limit |-> 0, ret |-> << >> ]

\* a call of get_available_accounts(daily_limit) on its own
GetAvailableAccounts(limit) ==
    /\ accounts' = LazyReset(accounts, DayOf(nowHour))
    /\ availCall' = [ pre |-> accounts, today |-> DayOf(nowHour), limit |-> limit,
                      ret |-> Available(accounts, DayOf(nowHour), limit) ]
    /\ UNCHANGED << nowHour, dmClients, dmSettings, templates, sentUsers, dmRecords,
                    tasks, sendLog, cleared, reply, verdict >>
    /\ UNCHANGED << kwVars, ingestVars, restVars >>

\* what check_account_status returns, lines 982-1002 with the returns of
\* detect_status_from_spambot, lines 950-980
ProbeResults ==
    { << "active", TRUE >>, << "restricted", FALSE >>, << "spam", FALSE >>,
      << "banned", FALSE >>, << "frozen", FALSE >>, << "unknown", FALSE >>,
      << "failed", FALSE >> }

----------------------------------------------------------------------------
(* DMRecordManager, DMSettingsManager *)

ResetHours == 24
NoTime == -1

DefaultDmSettings ==
    [ enabled |-> TRUE, delay_min |-> 30, delay_max |-> 120, daily_limit |-> 50,
      active_hours_start |-> 9, active_hours_end |-> 22 ]

\* a registry whose entry expires when the window is reached, not after it
IsUserSentExpiresEarly(sent, user_id, now) ==
    IF sent[user_id] = NoTime THEN FALSE
    ELSE IF now - sent[user_id] >= ResetHours THEN FALSE
    ELSE TRUE

\* is_user_sent(user_id), lines 1231-1258
IsUserSent(sent, user_id, now) ==
    IF sent[user_id] = NoTime THEN FALSE
    ELSE IF now - sent[user_id] > ResetHours THEN FALSE
    ELSE TRUE

\* is_active_hour(), lines 1383-1389
IsActiveHour(st, now) ==
    st.active_hours_start <= HourOfDay(now) /\ HourOfDay(now) < st.active_hours_end

\* DMRecordManager.add_record, lines 1272-1296
AddDmRecord(recs, r) ==
    LET all == Append(recs, r)
    IN  IF Len(all) > MaxRecords
        THEN SubSeq(all, Len(all) - MaxRecords + 1, Len(all))
        ELSE all

\* at most MaxAdds records are added to logs of a given length
MaxAdds == 3

\* the rest of the state when one of the two logs gets a record
RecordFrame ==
    /\ UNCHANGED << nowMin, processed, cooldown, cooldownTtl, settings, blockedUsers,
                    blockedChats, blUsers, blChats, filtered, inbox, handlers, alerts,
                    spawned, dropped >>
    /\ UNCHANGED << nowHour, accounts, dmClients, dmSettings, templates, sentUsers,
                    tasks, sendLog, cleared >>
    /\ UNCHANGED << reply, verdict, availCall, sentLog, tplList, issued, tplUsed, probes, clients, startPhone, stickers >>
    /\ UNCHANGED kwVars

\* RecordManager.add_record, lines 497-517, called on its own
AddTriggerRecord(r) ==
    /\ lastCall.n < MaxAdds
    /\ records' = AddRecord(records, r)
    /\ lastCall' = [ op |-> "add_record", n |-> lastCall.n + 1, log |-> "trigger",
                     pre |-> records, rec |-> r ]
    /\ UNCHANGED dmRecords
    /\ RecordFrame

\* DMRecordManager.add_record, lines 1272-1296, called on its own
AddDispatchRecord(r) ==
    /\ lastCall.n < MaxAdds
    /\ dmRecords' = AddDmRecord(dmRecords, r)
    /\ lastCall' = [ op |-> "add_record", n |-> lastCall.n + 1, log |-> "dispatch",
                     pre |-> dmRecords, rec |-> r ]
    /\ UNCHANGED records
    /\ RecordFrame

----------------------------------------------------------------------------
(* Operations on the account pool *)

PoolFrame ==
    /\ UNCHANGED << nowHour, dmSettings, templates, sentUsers, dmRecords, tasks,
                    sendLog, cleared >>
    /\ UNCHANGED << kwVars, ingestVars, libVars >>

AccountOf(phone) == accounts[IndexOf(accounts, phone)]

\* client.is_connected() for an entry of dm_clients: "up" is a connection
\* with an authorized session, "unauth" a connection whose session is not
\* authorized, "down" a client that lost its connection, "none" no client
IsConnected(c) == c \in { "up", "unauth" }

\* connect_dm_client, lines 3405-3468 (start_dm_clients, lines 5160-5212,
\* does the same): a session that is not authorized, or an exception,
\* marks the account failed; a connection re-writes the stored status
ConnectDmClient(phone, outcome) ==
    /\ HasAccount(accounts, phone)
    /\ ~IsConnected(dmClients[phone])
    /\ IF outcome = "ok"
       THEN /\ accounts' = UpdateAccountStatus(accounts, phone, AccountOf(phone).status,
                                               << AccountOf(phone).can_send_dm >>)
            /\ dmClients' = [ dmClients EXCEPT ![phone] = "up" ]
       ELSE /\ accounts' = UpdateAccountStatus(accounts, phone, "failed", << FALSE >>)
            /\ UNCHANGED dmClients
    /\ PoolFrame

\* check_single_account, lines 3892-3908
CheckSingleAccount(phone, res) ==
    /\ HasAccount(accounts, phone)
    /\ IF ~IsConnected(dmClients[phone])
       THEN accounts' = UpdateAccountStatus(accounts, phone, "failed", << FALSE >>)
       ELSE accounts' = UpdateAccountStatus(accounts, phone, res[1], << res[2] >>)
    /\ UNCHANGED dmClients
    /\ PoolFrame

\* check_and_import_session, lines 3656-3679 and 3704-3705: an authorized
\* session is probed and stored with the probed status
CheckAndImportSession(phone, res) ==
    /\ accounts' = AddAccount(accounts, phone, res[1])
    /\ dmClients' = [ dmClients EXCEPT ![phone] = "up" ]
    /\ PoolFrame

\* account deletion, lines 5040-5066
DeleteAccount(phone) ==
    /\ HasAccount(accounts, phone)
    /\ accounts' = RemoveAccount(accounts, phone)
    /\ dmClients' = [ dmClients EXCEPT ![phone] = "none" ]
    /\ PoolFrame

\* the transport loses the connection of an outbound identity
DropClient(phone) ==
    /\ IsConnected(dmClients[phone])
    /\ dmClients' = [ dmClients EXCEPT ![phone] = "down" ]
    /\ UNCHANGED accounts
    /\ PoolFrame

----------------------------------------------------------------------------
(* JTBot._auto_send_dm *)

DispatchUsers == { Alice, Bob, Anon }
UserIds == { u.id : u \in DispatchUsers }

MaxTasks == 2
MaxHour == 57
MaxClears == 1
StartHour == 9

TaskIds == 1..MaxTasks

\* the history of the sent registry before any call
NoSentCall == [ user |-> 0, at |-> NoTime, ret |-> FALSE, last |-> NoTime, kept |-> FALSE ]

NoSentLog == [ last |-> [ u \in UserIds |-> NoTime ], clears |-> [ u \in UserIds |-> 0 ],
               call |-> NoSentCall ]

IdleTask == [ pc |-> "idle", user |-> 0, username |-> "", phone |-> "", tpl |-> 0,
              out |-> "none", t0 |-> 0, seen |-> 0, clears |-> 0, note |-> "none" ]

Skips == { "skip_disabled", "skip_nousername", "skip_sent", "skip_hours",
           "skip_noaccount", "skip_disconnected", "skip_notemplate" }

EndTask(t, me, out) ==
    tasks' = [ tasks EXCEPT ![t] = [ me EXCEPT !.pc = "done", !.out = out ] ]

\* the checks without the one on the hour
PreCheckIgnoresHours(u) ==
    IF ~dmSettings.enabled THEN "skip_disabled"
    ELSE IF u.username = "" THEN "skip_nousername"
    ELSE IF IsUserSent(sentUsers, u.id, nowHour) THEN "skip_sent"
    ELSE "none"

\* the first failing check of lines 5346-5367, or "none"
PreCheck(u) ==
    IF ~dmSettings.enabled THEN "skip_disabled"
    ELSE IF u.username = "" THEN "skip_nousername"
    ELSE IF IsUserSent(sentUsers, u.id, nowHour) THEN "skip_sent"
    ELSE IF ~IsActiveHour(dmSettings, nowHour) THEN "skip_hours"
    ELSE "none"

\* asyncio.create_task(self._auto_send_dm(sender)) and the task's first
\* run, lines 5340-5407: the eligibility checks, the choice of account and
\* template, up to the sleep
Trigger(t, u) ==
    /\ tasks[t].pc = "idle"
    /\ \A k \in 1..(t - 1) : tasks[k].pc # "idle"
    /\ LET me == [ IdleTask EXCEPT !.user = u.id, !.username = u.username,
                                   !.t0 = nowHour, !.seen = Len(sendLog),
                                   !.clears = cleared ]
           today == DayOf(nowHour)
           avail == Available(accounts, today, dmSettings.daily_limit)
       IN  IF PreCheck(u) # "none"
           THEN /\ EndTask(t, me, PreCheck(u))
                /\ UNCHANGED accounts
           ELSE /\ accounts' = LazyReset(accounts, today)
                /\ IF avail = << >>
                   THEN EndTask(t, me, "skip_noaccount")
                   ELSE \E i \in 1..Len(avail) :
                          IF ~IsConnected(dmClients[avail[i].phone])
                          THEN EndTask(t, me, "skip_disconnected")
                          ELSE IF templates = {}
                          THEN EndTask(t, me, "skip_notemplate")
                          ELSE \E tpl \in templates :
                                 tasks' = [ tasks EXCEPT ![t] =
                                   [ me EXCEPT !.pc = "delay", !.phone = avail[i].phone,
                                               !.tpl = tpl ] ]
    /\ UNCHANGED << nowHour, dmClients, dmSettings, templates, sentUsers, dmRecords,
                    sendLog, cleared >>
    /\ UNCHANGED << kwVars, ingestVars, libVars >>

\* lines 5409-5428: after the sleep the connection is checked again and,
\* when it dropped, one reconnect is tried; a reconnect that finds the
\* session not authorized leaves the client connected in dm_clients
DmWake(t, reconnect) ==
    /\ tasks[t].pc = "delay"
    /\ LET me == tasks[t]
       IN  IF IsConnected(dmClients[me.phone])
           THEN /\ tasks' = [ tasks EXCEPT ![t].pc = "sending" ]
                /\ UNCHANGED dmClients
           ELSE IF reconnect = "ok"
           THEN /\ tasks' = [ tasks EXCEPT ![t].pc = "sending" ]
                /\ dmClients' = [ dmClients EXCEPT ![me.phone] = "up" ]
           ELSE IF reconnect = "unauthorized"
           THEN /\ EndTask(t, me, "abort_unauthorized")
                /\ dmClients' = [ dmClients EXCEPT ![me.phone] = "unauth" ]
           ELSE /\ EndTask(t, me, "abort_reconnect")
                /\ UNCHANGED dmClients
    /\ UNCHANGED << nowHour, accounts, dmSettings, templates, sentUsers, dmRecords,
                    sendLog, cleared >>
    /\ UNCHANGED << kwVars, ingestVars, libVars >>

\* a send whose bookkeeping leaves the registry alone
CommitSendSkipsRegistry(me) ==
    /\ UNCHANGED sentUsers
    /\ accounts' = IncrementSentCount(accounts, me.phone, DayOf(nowHour))
    /\ dmRecords' = AddDmRecord(dmRecords,
                        [ user |-> me.user, phone |-> me.phone, tpl |-> me.tpl,
                          status |-> "success", at |-> nowHour ])

\* a send that is entered and counted and leaves no record
CommitSendSkipsRecord(me) ==
    /\ sentUsers' = [ sentUsers EXCEPT ![me.user] = nowHour ]
    /\ accounts' = IncrementSentCount(accounts, me.phone, DayOf(nowHour))
    /\ UNCHANGED dmRecords

\* the bookkeeping of a successful send, lines 5431-5441
CommitSend(me) ==
    /\ sentUsers' = [ sentUsers EXCEPT ![me.user] = nowHour ]
    /\ accounts' = IncrementSentCount(accounts, me.phone, DayOf(nowHour))
    /\ dmRecords' = AddDmRecord(dmRecords,
                        [ user |-> me.user, phone |-> me.phone, tpl |-> me.tpl,
                          status |-> "success", at |-> nowHour ])

\* a failed send that is counted as a send of the identity
RecordFailureCountsSend(me) ==
    /\ dmRecords' = AddDmRecord(dmRecords,
                        [ user |-> me.user, phone |-> me.phone, tpl |-> me.tpl,
                          status |-> "failed", at |-> nowHour ])
    /\ accounts' = IncrementSentCount(accounts, me.phone, DayOf(nowHour))
    /\ UNCHANGED sentUsers

\* the bookkeeping of a failed send, lines 5481-5492
RecordFailure(me) ==
    /\ dmRecords' = AddDmRecord(dmRecords,
                        [ user |-> me.user, phone |-> me.phone, tpl |-> me.tpl,
                          status |-> "failed", at |-> nowHour ])
    /\ UNCHANGED << sentUsers, accounts >>

\* lines 5424-5492: _send_dm_by_template returns and the outcome is
\* recorded; after a success the admin is notified (lines 5444-5480), and
\* a failure of that is logged and changes nothing
DmFinish(t, success, notified) ==
    /\ tasks[t].pc = "sending"
    /\ success => dmClients[tasks[t].phone] = "up"
    /\ notified => success
    /\ LET me == tasks[t]
       IN  IF success
           THEN /\ CommitSend(me)
                /\ sendLog' = Append(sendLog, [ user |-> me.user, phone |-> me.phone,
                                                at |-> nowHour, task |-> t,
                                                clears |-> cleared ])
                /\ EndTask(t, [ me EXCEPT !.note = IF notified THEN "ok" ELSE "failed" ],
                           "sent")
           ELSE /\ RecordFailure(me)
                /\ EndTask(t, me, "failed")
                /\ UNCHANGED sendLog
    /\ UNCHANGED << nowHour, dmClients, dmSettings, templates, cleared >>
    /\ UNCHANGED << kwVars, ingestVars, libVars >>

\* dm_clear_sent_users, lines 4879-4889: DMRecordManager.clear_sent_users
ClearSentUsers ==
    /\ cleared < MaxClears
    /\ sentUsers' = [ u \in UserIds |-> NoTime ]
    /\ cleared' = cleared + 1
    /\ UNCHANGED << nowHour, accounts, dmClients, dmSettings, templates, dmRecords,
                    tasks, sendLog >>
    /\ UNCHANGED << kwVars, ingestVars, libVars >>

\* DMRecordManager.add_sent_user, lines 1260-1264, called on its own
AddSentUser(u) ==
    /\ sentUsers' = [ sentUsers EXCEPT ![u] = nowHour ]
    /\ sentLog' = [ sentLog EXCEPT !.last[u] = nowHour, !.clears[u] = cleared ]
    /\ UNCHANGED << nowHour, accounts, dmClients, dmSettings, templates, dmRecords,
                    tasks, sendLog, cleared >>
    /\ UNCHANGED << reply, verdict, availCall, tplList, issued, tplUsed, lastCall, probes, clients, startPhone, stickers >>
    /\ UNCHANGED << kwVars, ingestVars >>

\* DMRecordManager.is_user_sent(user_id), lines 1231-1258, called on its own
AskUserSent(u) ==
    /\ sentLog' = [ sentLog EXCEPT !.call =
                        [ user |-> u, at |-> nowHour,
                          ret |-> IsUserSent(sentUsers, u, nowHour),
                          last |-> sentLog.last[u],
                          kept |-> sentLog.clears[u] = cleared ] ]
    /\ UNCHANGED << reply, verdict, availCall, tplList, issued, tplUsed, lastCall, probes, clients, startPhone, stickers >>
    /\ UNCHANGED << kwVars, ingestVars, dispatchVars >>

\* at most MaxTemplates templates are ever created
MaxTemplates == 4

TemplateFrame ==
    /\ UNCHANGED << nowHour, accounts, dmClients, dmSettings, sentUsers, dmRecords,
                    tasks, sendLog, cleared >>
    /\ UNCHANGED << reply, verdict, availCall, sentLog, lastCall, probes, clients, startPhone, stickers >>
    /\ UNCHANGED << kwVars, ingestVars >>

TemplateIds(list) == { list[i].id : i \in 1..Len(list) }

\* DMTemplateManager.add_template, lines 1062-1077: the id is the length of
\* the list plus one; `made` numbers the templates in the order of their
\* creation and stands for the content
AddTemplate ==
    /\ Len(issued) < MaxTemplates
    /\ LET template_id == Len(tplList) + 1
           template == [ id |-> template_id, made |-> Len(issued) + 1 ]
       IN  /\ tplList' = Append(tplList, template)
           /\ issued' = Append(issued, template_id)
           /\ templates' = TemplateIds(tplList')
    /\ UNCHANGED tplUsed
    /\ TemplateFrame

\* DMTemplateManager.remove_template, lines 1079-1086: the first template
\* with the id is removed
RemoveTemplate(template_id) ==
    /\ template_id \in TemplateIds(tplList)
    /\ LET i == CHOOSE k \in 1..Len(tplList) :
                    /\ tplList[k].id = template_id
                    /\ \A j \in 1..(k - 1) : tplList[j].id # template_id
       IN  tplList' = SubSeq(tplList, 1, i - 1) \o SubSeq(tplList, i + 1, Len(tplList))
    /\ templates' = TemplateIds(tplList')
    /\ UNCHANGED << issued, tplUsed >>
    /\ TemplateFrame

\* get_random_template (lines 1099-1103) and the record of a dispatch with
\* it (lines 5438 and 5487): the record names the template by its id
RecordTemplate(i) ==
    /\ i \in 1..Len(tplList)
    /\ tplUsed' = tplUsed \cup { tplList[i] }
    /\ UNCHANGED << tplList, issued, templates >>
    /\ TemplateFrame

HourSteps == { 24 }

TickHour(d) ==
    /\ nowHour + d <= MaxHour
    /\ nowHour' = nowHour + d
    /\ UNCHANGED << accounts, dmClients, dmSettings, templates, sentUsers, dmRecords,
                    tasks, sendLog, cleared >>
    /\ UNCHANGED << kwVars, ingestVars, libVars >>

----------------------------------------------------------------------------
(* DMAccountManager: the status classifier.  A character outside ASCII is  *)
(* the string of its code point.                                           *)

\* STATUS_PATTERNS["geo_warning"]
GeoWarningPatterns ==
    << << "s", "o", "m", "e", " ", "p", "h", "o", "n", "e", " ", "n", "u",
          "m", "b", "e", "r", "s", " ", "m", "a", "y", " ", "t", "r", "i",
          "g", "g", "e", "r", " ", "a", " ", "h", "a", "r", "s", "h", " ",
          "r", "e", "s", "p", "o", "n", "s", "e" >>,
       << "p", "h", "o", "n", "e", " ", "n", "u", "m", "b", "e", "r", "s",
          " ", "m", "a", "y", " ", "t", "r", "i", "g", "g", "e", "r" >> >>

\* STATUS_PATTERNS["active"]
ActivePatterns ==
    << << "g", "o", "o", "d", " ", "n", "e", "w", "s", ",", " ", "n", "o",
          " ", "l", "i", "m", "i", "t", "s", " ", "a", "r", "e", " ", "c",
          "u", "r", "r", "e", "n", "t", "l", "y", " ", "a", "p", "p", "l",
          "i", "e", "d" >>,
       << "y", "o", "u", "'", "r", "e", " ", "f", "r", "e", "e", " ", "a",
          "s", " ", "a", " ", "b", "i", "r", "d" >>,
       << "n", "o", " ", "l", "i", "m", "i", "t", "s" >>,
       << "f", "r", "e", "e", " ", "a", "s", " ", "a", " ", "b", "i", "r",
          "d" >>,
       << "n", "o", " ", "r", "e", "s", "t", "r", "i", "c", "t", "i", "o",
          "n", "s" >>,
       << "a", "l", "l", " ", "g", "o", "o", "d" >>,
       << "a", "c", "c", "o", "u", "n", "t", " ", "i", "s", " ", "f", "r",
          "e", "e" >>,
       << "n", "o", "t", " ", "l", "i", "m", "i", "t", "e", "d" >>,
       << "U+6B63", "U+5E38" >>,
       << "U+6CA1", "U+6709", "U+9650", "U+5236" >>,
       << "U+65E0", "U+9650", "U+5236" >> >>

\* STATUS_PATTERNS["restricted"]
RestrictedPatterns ==
    << << "a", "c", "c", "o", "u", "n", "t", " ", "i", "s", " ", "n", "o",
          "w", " ", "l", "i", "m", "i", "t", "e", "d", " ", "u", "n", "t",
          "i", "l" >>,
       << "l", "i", "m", "i", "t", "e", "d", " ", "u", "n", "t", "i", "l" >>,
       << "m", "o", "d", "e", "r", "a", "t", "o", "r", "s", " ", "h", "a",
          "v", "e", " ", "c", "o", "n", "f", "i", "r", "m", "e", "d", " ",
          "t", "h", "e", " ", "r", "e", "p", "o", "r", "t" >>,
       << "u", "s", "e", "r", "s", " ", "f", "o", "u", "n", "d", " ", "y",
          "o", "u", "r", " ", "m", "e", "s", "s", "a", "g", "e", "s", " ",
          "a", "n", "n", "o", "y", "i", "n", "g" >>,
       << "w", "i", "l", "l", " ", "b", "e", " ", "a", "u", "t", "o", "m",
          "a", "t", "i", "c", "a", "l", "l", "y", " ", "r", "e", "l", "e",
          "a", "s", "e", "d" >>,
       << "t", "e", "m", "p", "o", "r", "a", "r", "i", "l", "y", " ", "l",
          "i", "m", "i", "t", "e", "d" >>,
       << "U+6682", "U+65F6", "U+9650", "U+5236" >>,
       << "U+4E34", "U+65F6", "U+9650", "U+5236" >> >>

\* STATUS_PATTERNS["spam"]
SpamPatterns ==
    << << "a", "c", "t", "i", "o", "n", "s", " ", "c", "a", "n", " ", "t",
          "r", "i", "g", "g", "e", "r", " ", "a", " ", "h", "a", "r", "s",
          "h", " ", "r", "e", "s", "p", "o", "n", "s", "e", " ", "f", "r",
          "o", "m", " ", "o", "u", "r", " ", "a", "n", "t", "i", "-", "s",
          "p", "a", "m", " ", "s", "y", "s", "t", "e", "m", "s" >>,
       << "a", "c", "c", "o", "u", "n", "t", " ", "w", "a", "s", " ", "l",
          "i", "m", "i", "t", "e", "d" >>,
       << "y", "o", "u", " ", "w", "i", "l", "l", " ", "n", "o", "t", " ",
          "b", "e", " ", "a", "b", "l", "e", " ", "t", "o", " ", "s", "e",
          "n", "d", " ", "m", "e", "s", "s", "a", "g", "e", "s" >>,
       << "U+8FDD", "U+89C4" >> >>

\* STATUS_PATTERNS["banned"]
BannedPatterns ==
    << << "p", "e", "r", "m", "a", "n", "e", "n", "t", "l", "y", " ", "b",
          "a", "n", "n", "e", "d" >>,
       << "a", "c", "c", "o", "u", "n", "t", " ", "h", "a", "s", " ", "b",
          "e", "e", "n", " ", "f", "r", "o", "z", "e", "n", " ", "p", "e",
          "r", "m", "a", "n", "e", "n", "t", "l", "y" >>,
       << "p", "e", "r", "m", "a", "n", "e", "n", "t", "l", "y", " ", "r",
          "e", "s", "t", "r", "i", "c", "t", "e", "d" >>,
       << "b", "a", "n", "n", "e", "d", " ", "p", "e", "r", "m", "a", "n",
          "e", "n", "t", "l", "y" >>,
       << "b", "l", "o", "c", "k", "e", "d", " ", "f", "o", "r", " ", "v",
          "i", "o", "l", "a", "t", "i", "o", "n", "s" >>,
       << "t", "e", "r", "m", "s", " ", "o", "f", " ", "s", "e", "r", "v",
          "i", "c", "e" >>,
       << "b", "a", "n", "n", "e", "d" >>,
       << "s", "u", "s", "p", "e", "n", "d", "e", "d" >>,
       << "U+6C38", "U+4E45", "U+9650", "U+5236" >>,
       << "U+6C38", "U+4E45", "U+5C01", "U+7981" >> >>

\* STATUS_PATTERNS["frozen"]
FrozenPatterns ==
    << << "w", "a", "i", "t" >>,
       << "p", "e", "n", "d", "i", "n", "g" >>,
       << "v", "e", "r", "i", "f", "i", "c", "a", "t", "i", "o", "n" >>,
       << "U+7B49", "U+5F85" >>,
       << "U+5BA1", "U+6838", "U+4E2D" >> >>

\* TRANSLATIONS, in the order of the dict: [src, dst]
Translations ==
    << [ src |-> << "U+043E", "U+0433", "U+0440", "U+0430", "U+043D",
                   "U+0438", "U+0447", "U+0435", "U+043D", "U+0438",
                   "U+044F" >>,
         dst |-> << "l", "i", "m", "i", "t", "a", "t", "i", "o", "n", "s" >> ],
       [ src |-> << "U+0437", "U+0430", "U+0431", "U+043B", "U+043E",
                   "U+043A", "U+0438", "U+0440", "U+043E", "U+0432",
                   "U+0430", "U+043D" >>,
         dst |-> << "b", "l", "o", "c", "k", "e", "d" >> ],
       [ src |-> << "U+0445", "U+043E", "U+0440", "U+043E", "U+0448",
                   "U+0438", "U+0435", " ", "U+043D", "U+043E", "U+0432",
                   "U+043E", "U+0441", "U+0442", "U+0438" >>,
         dst |-> << "g", "o", "o", "d", " ", "n", "e", "w", "s" >> ],
       [ src |-> << "U+043D", "U+0435", "U+0442", " ", "U+043E", "U+0433",
                   "U+0440", "U+0430", "U+043D", "U+0438", "U+0447",
                   "U+0435", "U+043D", "U+0438", "U+0439" >>,
         dst |-> << "n", "o", " ", "l", "i", "m", "i", "t", "s" >> ],
       [ src |-> << "U+6B63", "U+5E38" >>,
         dst |-> << "a", "l", "l", " ", "g", "o", "o", "d" >> ],
       [ src |-> << "U+6CA1", "U+6709", "U+9650", "U+5236" >>,
         dst |-> << "n", "o", " ", "l", "i", "m", "i", "t", "s" >> ],
       [ src |-> << "U+6C38", "U+4E45", "U+5C01", "U+7981" >>,
         dst |-> << "p", "e", "r", "m", "a", "n", "e", "n", "t", "l", "y",
                   " ", "b", "a", "n", "n", "e", "d" >> ],
       [ src |-> << "U+9650", "U+5236" >>,
         dst |-> << "l", "i", "m", "i", "t", "e", "d" >> ],
       [ src |-> << "U+6682", "U+65F6" >>,
         dst |-> << "t", "e", "m", "p", "o", "r", "a", "r", "i", "l", "y" >> ],
       [ src |-> << "U+9A8C", "U+8BC1" >>,
         dst |-> << "v", "e", "r", "i", "f", "i", "c", "a", "t", "i", "o",
                   "n" >> ] >>

\* str.replace(src, dst): every occurrence, left to right
RECURSIVE ReplaceAll(_, _, _)
ReplaceAll(s, src, dst) ==
    IF Len(s) < Len(src) THEN s
    ELSE IF SubSeq(s, 1, Len(src)) = src
    THEN dst \o ReplaceAll(SubSeq(s, Len(src) + 1, Len(s)), src, dst)
    ELSE << Head(s) >> \o ReplaceAll(Tail(s), src, dst)

RECURSIVE TranslateFrom(_, _)
TranslateFrom(text, i) ==
    IF i > Len(Translations) THEN text
    ELSE TranslateFrom(IF Contains(Translations[i].src, text)
                       THEN ReplaceAll(text, Translations[i].src, Translations[i].dst)
                       ELSE text,
                       i + 1)

\* translate_text(text), lines 932-938
TranslateText(text) == TranslateFrom(Lower(text), 1)

\* one loop of detect_status_from_spambot: some pattern of the list, in
\* lower case, is contained in the translated text
AnyPatternIn(patterns, translated) ==
    \E i \in 1..Len(patterns) : Contains(Lower(patterns[i]), translated)

\* a classifier that tests the banned patterns before all others
DetectStatusBannedFirst(message_text) ==
    LET translated == TranslateText(message_text)
    IN  IF AnyPatternIn(BannedPatterns, translated) THEN << "banned", FALSE >>
        ELSE IF AnyPatternIn(GeoWarningPatterns, translated) THEN << "active", TRUE >>
        ELSE IF AnyPatternIn(ActivePatterns, translated) THEN << "active", TRUE >>
        ELSE IF AnyPatternIn(RestrictedPatterns, translated) THEN << "restricted", FALSE >>
        ELSE IF AnyPatternIn(SpamPatterns, translated) THEN << "spam", FALSE >>
        ELSE IF AnyPatternIn(FrozenPatterns, translated) THEN << "frozen", FALSE >>
        ELSE << "unknown", FALSE >>

\* detect_status_from_spambot(message_text), lines 941-980: (status, can_send_dm)
DetectStatusFromSpambot(message_text) ==
    LET translated == TranslateText(message_text)
    IN  IF AnyPatternIn(GeoWarningPatterns, translated) THEN << "active", TRUE >>
        ELSE IF AnyPatternIn(ActivePatterns, translated) THEN << "active", TRUE >>
        ELSE IF AnyPatternIn(RestrictedPatterns, translated) THEN << "restricted", FALSE >>
        ELSE IF AnyPatternIn(SpamPatterns, translated) THEN << "spam", FALSE >>
        ELSE IF AnyPatternIn(BannedPatterns, translated) THEN << "banned", FALSE >>
        ELSE IF AnyPatternIn(FrozenPatterns, translated) THEN << "frozen", FALSE >>
        ELSE << "unknown", FALSE >>

NoVerdict == << "none", FALSE >>

\* phrases of gatekeeper replies: one of each category, one of no category,
\* and phrases that the translation map rewrites
ReplyPhrases ==
    { << "S", "o", "m", "e", " ", "p", "h", "o", "n", "e", " ", "n", "u",
         "m", "b", "e", "r", "s", " ", "m", "a", "y", " ", "t", "r", "i",
         "g", "g", "e", "r", " ", "a", " ", "h", "a", "r", "s", "h", " ",
         "r", "e", "s", "p", "o", "n", "s", "e" >>,
      << "G", "o", "o", "d", " ", "n", "e", "w", "s", ",", " ", "n", "o",
         " ", "l", "i", "m", "i", "t", "s", " ", "a", "r", "e", " ", "c",
         "u", "r", "r", "e", "n", "t", "l", "y", " ", "a", "p", "p", "l",
         "i", "e", "d" >>,
      << "l", "i", "m", "i", "t", "e", "d", " ", "u", "n", "t", "i", "l" >>,
      << "a", "c", "c", "o", "u", "n", "t", " ", "w", "a", "s", " ", "l",
         "i", "m", "i", "t", "e", "d" >>,
      << "p", "e", "r", "m", "a", "n", "e", "n", "t", "l", "y", " ", "b",
         "a", "n", "n", "e", "d" >>,
      << "p", "e", "n", "d", "i", "n", "g" >>,
      << "h", "e", "l", "l", "o" >>,
      << "U+6682", "U+65F6", "U+9650", "U+5236" >>,
      << "U+6C38", "U+4E45", "U+5C01", "U+7981" >>,
      << "U+0437", "U+0430", "U+0431", "U+043B", "U+043E", "U+043A",
         "U+0438", "U+0440", "U+043E", "U+0432", "U+0430", "U+043D" >> }

MaxPhrases == 2

\* the phrases of a reply, joined by blanks
RECURSIVE JoinPhrases(_)
JoinPhrases(ps) ==
    IF ps = << >> THEN << >>
    ELSE IF Len(ps) = 1 THEN ps[1]
    ELSE ps[1] \o << " " >> \o JoinPhrases(Tail(ps))

Replies ==
    { JoinPhrases(ps) : ps \in UNION { [ 1..n -> ReplyPhrases ] : n \in 1..MaxPhrases } }

\* check_account_status, lines 989-996: the latest message of the
\* gatekeeper is classified
ClassifyReply ==
    /\ verdict = NoVerdict
    /\ verdict' = DetectStatusFromSpambot(reply)
    /\ UNCHANGED << reply, availCall, restVars >>
    /\ UNCHANGED << kwVars, ingestVars, dispatchVars >>

----------------------------------------------------------------------------
(* The configuration handlers of the admin bot.  A handler gets the text   *)
(* of the admin's message, or NoText for a message without text.           *)

NoText == << "None" >>

Digits == << "0", "1", "2", "3", "4", "5", "6", "7", "8", "9" >>
IsDigit(c) == \E i \in 1..10 : Digits[i] = c
DigitValue(c) == (CHOOSE i \in 1..10 : Digits[i] = c) - 1

\* the value of a run of digits and underscores, read from the left
RECURSIVE DigitsValue(_, _)
DigitsValue(s, acc) ==
    IF s = << >> THEN acc
    ELSE IF Head(s) = "_" THEN DigitsValue(Tail(s), acc)
    ELSE DigitsValue(Tail(s), 10 * acc + DigitValue(Head(s)))

\* Python's int(s) on a string: blanks around it, a sign, then digits with
\* single underscores between them; anything else raises ValueError
ParseInt(s) ==
    LET body == Strip(s)
        neg  == body # << >> /\ Head(body) = "-"
        num  == IF body # << >> /\ Head(body) \in { "-", "+" } THEN Tail(body) ELSE body
        ok   == /\ num # << >>
                /\ IsDigit(num[1])
                /\ IsDigit(num[Len(num)])
                /\ \A i \in 1..Len(num) : IsDigit(num[i]) \/ num[i] = "_"
                /\ \A i \in 1..(Len(num) - 1) : ~(num[i] = "_" /\ num[i + 1] = "_")
    IN  IF ok
        THEN [ ok |-> TRUE, val |-> IF neg THEN 0 - DigitsValue(num, 0)
                                    ELSE DigitsValue(num, 0) ]
        ELSE [ ok |-> FALSE, val |-> 0 ]

\* str.split('|')
RECURSIVE SplitBar(_)
SplitBar(s) ==
    IF \E i \in 1..Len(s) : s[i] = "|"
    THEN LET i == CHOOSE k \in 1..Len(s) : s[k] = "|" /\ \A j \in 1..(k - 1) : s[j] # "|"
         IN  << SubSeq(s, 1, i - 1) >> \o SplitBar(SubSeq(s, i + 1, Len(s)))
    ELSE << s >>

\* the two numbers of a text "a|b", as receive_delay_config and
\* receive_active_hours_config read them
ParsePair(text) ==
    LET parts == SplitBar(Strip(text))
    IN  IF text = NoText \/ Len(parts) # 2
        THEN [ ok |-> FALSE, a |-> 0, b |-> 0 ]
        ELSE [ ok |-> ParseInt(parts[1]).ok /\ ParseInt(parts[2]).ok,
               a |-> ParseInt(parts[1]).val, b |-> ParseInt(parts[2]).val ]

\* the texts sent to receive_cooldown, each with the value Python reads from it
CooldownInputs ==
    { [ text |-> << "0" >>,
        means |-> [ kind |-> "int", a |-> 0, b |-> 0 ] ],
      [ text |-> << "1" >>,
        means |-> [ kind |-> "int", a |-> 1, b |-> 0 ] ],
      [ text |-> << "6", "0" >>,
        means |-> [ kind |-> "int", a |-> 60, b |-> 0 ] ],
      [ text |-> << "6", "1" >>,
        means |-> [ kind |-> "int", a |-> 61, b |-> 0 ] ],
      [ text |-> << " ", "5", " " >>,
        means |-> [ kind |-> "int", a |-> 5, b |-> 0 ] ],
      [ text |-> << "6", "_", "0" >>,
        means |-> [ kind |-> "int", a |-> 60, b |-> 0 ] ],
      [ text |-> << "a", "b", "c" >>,
        means |-> [ kind |-> "malformed", a |-> 0, b |-> 0 ] ],
      [ text |-> << >>,
        means |-> [ kind |-> "malformed", a |-> 0, b |-> 0 ] ],
      [ text |-> NoText,
        means |-> [ kind |-> "malformed", a |-> 0, b |-> 0 ] ],
      [ text |-> << "-", "3" >>,
        means |-> [ kind |-> "int", a |-> -3, b |-> 0 ] ],
      [ text |-> << "5", ".", "0" >>,
        means |-> [ kind |-> "malformed", a |-> 0, b |-> 0 ] ] }

\* the texts sent to receive_max_length, each with the value Python reads from it
MaxLengthInputs ==
    { [ text |-> << "9" >>,
        means |-> [ kind |-> "int", a |-> 9, b |-> 0 ] ],
      [ text |-> << "1", "0" >>,
        means |-> [ kind |-> "int", a |-> 10, b |-> 0 ] ],
      [ text |-> << "1", "0", "0", "0" >>,
        means |-> [ kind |-> "int", a |-> 1000, b |-> 0 ] ],
      [ text |-> << "1", "0", "0", "1" >>,
        means |-> [ kind |-> "int", a |-> 1001, b |-> 0 ] ],
      [ text |-> << "x" >>,
        means |-> [ kind |-> "malformed", a |-> 0, b |-> 0 ] ] }

\* the texts sent to receive_min_age, each with the value Python reads from it
MinAgeInputs ==
    { [ text |-> << "-", "1" >>,
        means |-> [ kind |-> "int", a |-> -1, b |-> 0 ] ],
      [ text |-> << "0" >>,
        means |-> [ kind |-> "int", a |-> 0, b |-> 0 ] ],
      [ text |-> << "3", "6", "5" >>,
        means |-> [ kind |-> "int", a |-> 365, b |-> 0 ] ],
      [ text |-> << "3", "6", "6" >>,
        means |-> [ kind |-> "int", a |-> 366, b |-> 0 ] ],
      [ text |-> << >>,
        means |-> [ kind |-> "malformed", a |-> 0, b |-> 0 ] ] }

\* the texts sent to receive_daily_limit_config, each with the value Python reads from it
DailyLimitInputs ==
    { [ text |-> << "0" >>,
        means |-> [ kind |-> "int", a |-> 0, b |-> 0 ] ],
      [ text |-> << "1" >>,
        means |-> [ kind |-> "int", a |-> 1, b |-> 0 ] ],
      [ text |-> << "2", "0", "0" >>,
        means |-> [ kind |-> "int", a |-> 200, b |-> 0 ] ],
      [ text |-> << "2", "0", "1" >>,
        means |-> [ kind |-> "int", a |-> 201, b |-> 0 ] ],
      [ text |-> << "1", "e", "2" >>,
        means |-> [ kind |-> "malformed", a |-> 0, b |-> 0 ] ] }

\* the texts sent to receive_delay_config, each with the value Python reads from it
DelayInputs ==
    { [ text |-> << "1", "0", "|", "6", "0", "0" >>,
        means |-> [ kind |-> "pair", a |-> 10, b |-> 600 ] ],
      [ text |-> << "9", "|", "6", "0", "0" >>,
        means |-> [ kind |-> "pair", a |-> 9, b |-> 600 ] ],
      [ text |-> << "1", "0", "|", "6", "0", "1" >>,
        means |-> [ kind |-> "pair", a |-> 10, b |-> 601 ] ],
      [ text |-> << "2", "0", "|", "2", "0" >>,
        means |-> [ kind |-> "pair", a |-> 20, b |-> 20 ] ],
      [ text |-> << "3", "0", "|", "2", "0" >>,
        means |-> [ kind |-> "pair", a |-> 30, b |-> 20 ] ],
      [ text |-> << " ", "1", "5", " ", "|", " ", "9", "0", " " >>,
        means |-> [ kind |-> "pair", a |-> 15, b |-> 90 ] ],
      [ text |-> << "1", "0" >>,
        means |-> [ kind |-> "malformed", a |-> 0, b |-> 0 ] ],
      [ text |-> << "a", "|", "b" >>,
        means |-> [ kind |-> "malformed", a |-> 0, b |-> 0 ] ],
      [ text |-> << "1", "|", "2", "|", "3" >>,
        means |-> [ kind |-> "malformed", a |-> 0, b |-> 0 ] ],
      [ text |-> NoText,
        means |-> [ kind |-> "malformed", a |-> 0, b |-> 0 ] ] }

\* the texts sent to receive_active_hours_config, each with the value Python reads from it
ActiveHoursInputs ==
    { [ text |-> << "0", "|", "2", "3" >>,
        means |-> [ kind |-> "pair", a |-> 0, b |-> 23 ] ],
      [ text |-> << "-", "1", "|", "5" >>,
        means |-> [ kind |-> "pair", a |-> -1, b |-> 5 ] ],
      [ text |-> << "0", "|", "2", "4" >>,
        means |-> [ kind |-> "pair", a |-> 0, b |-> 24 ] ],
      [ text |-> << "9", "|", "9" >>,
        means |-> [ kind |-> "pair", a |-> 9, b |-> 9 ] ],
      [ text |-> << "2", "2", "|", "9" >>,
        means |-> [ kind |-> "pair", a |-> 22, b |-> 9 ] ],
      [ text |-> << "8", "|", "2", "0" >>,
        means |-> [ kind |-> "pair", a |-> 8, b |-> 20 ] ],
      [ text |-> << "8" >>,
        means |-> [ kind |-> "malformed", a |-> 0, b |-> 0 ] ],
      [ text |-> << "x", "|", "1" >>,
        means |-> [ kind |-> "malformed", a |-> 0, b |-> 0 ] ] }

\* the call as lastCall records it: the handler, the message and the
\* settings and the cooldown cache before it
ConfigCall(op, inp) ==
    [ op |-> op, n |-> lastCall.n + 1, inp |-> inp,
      pre |-> [ settings |-> settings, dmSettings |-> dmSettings,
                cooldown |-> cooldown, cooldownTtl |-> cooldownTtl ] ]

\* at most MaxConfigCalls messages are sent to the handlers
MaxConfigCalls == 2

\* what no configuration handler touches
ConfigFrame ==
    /\ lastCall.n < MaxConfigCalls
    /\ UNCHANGED << nowMin, processed, blockedUsers, blockedChats, blUsers, blChats,
                    filtered, inbox, handlers, alerts, records, spawned >>
    /\ UNCHANGED << nowHour, accounts, dmClients, templates, sentUsers, dmRecords,
                    tasks, sendLog, cleared >>
    /\ UNCHANGED << reply, verdict, availCall, sentLog, tplList, issued, tplUsed, probes, clients, startPhone, stickers >>
    /\ UNCHANGED kwVars

\* receive_cooldown, lines 2616-2635, with the text of the message
ReceiveCooldownMessage(inp) ==
    /\ IF inp.text = NoText \/ ~ParseInt(inp.text).ok
       THEN UNCHANGED << settings, cooldown, cooldownTtl, dropped >>
       ELSE SetCooldown(ParseInt(inp.text).val)
    /\ lastCall' = ConfigCall("receive_cooldown", inp)
    /\ UNCHANGED dmSettings
    /\ ConfigFrame

\* receive_max_length, lines 2649-2667
ReceiveMaxLength(inp) ==
    /\ LET max_len == ParseInt(inp.text)
       IN  IF inp.text # NoText /\ max_len.ok /\ 10 <= max_len.val /\ max_len.val <= 1000
           THEN settings' = [ settings EXCEPT !.max_message_length = max_len.val ]
           ELSE UNCHANGED settings
    /\ lastCall' = ConfigCall("receive_max_length", inp)
    /\ UNCHANGED << cooldown, cooldownTtl, dropped, dmSettings >>
    /\ ConfigFrame

\* receive_min_age, lines 2679-2697
ReceiveMinAge(inp) ==
    /\ LET days == ParseInt(inp.text)
       IN  IF inp.text # NoText /\ days.ok /\ 0 <= days.val /\ days.val <= 365
           THEN settings' = [ settings EXCEPT !.min_account_age_days = days.val ]
           ELSE UNCHANGED settings
    /\ lastCall' = ConfigCall("receive_min_age", inp)
    /\ UNCHANGED << cooldown, cooldownTtl, dropped, dmSettings >>
    /\ ConfigFrame

\* receive_daily_limit_config, lines 4635-4649
ReceiveDailyLimitConfig(inp) ==
    /\ LET daily_limit == ParseInt(inp.text)
       IN  IF inp.text = NoText \/ ~daily_limit.ok
              \/ daily_limit.val < 1 \/ daily_limit.val > 200
           THEN UNCHANGED dmSettings
           ELSE dmSettings' = [ dmSettings EXCEPT !.daily_limit = daily_limit.val ]
    /\ lastCall' = ConfigCall("receive_daily_limit_config", inp)
    /\ UNCHANGED << settings, cooldown, cooldownTtl, dropped >>
    /\ ConfigFrame

\* receive_delay_config, lines 4503-4520: the two update_setting calls run
\* one after the other without an await between them
ReceiveDelayConfig(inp) ==
    /\ LET p == ParsePair(inp.text)
       IN  IF ~p.ok \/ p.a < 10 \/ p.b > 600 \/ p.a >= p.b
           THEN UNCHANGED dmSettings
           ELSE dmSettings' = [ dmSettings EXCEPT !.delay_min = p.a, !.delay_max = p.b ]
    /\ lastCall' = ConfigCall("receive_delay_config", inp)
    /\ UNCHANGED << settings, cooldown, cooldownTtl, dropped >>
    /\ ConfigFrame

\* receive_active_hours_config, lines 4693-4712
ReceiveActiveHoursConfig(inp) ==
    /\ LET p == ParsePair(inp.text)
       IN  IF ~p.ok \/ p.a < 0 \/ p.a > 23 \/ p.b < 0 \/ p.b > 23 \/ p.a >= p.b
           THEN UNCHANGED dmSettings
           ELSE dmSettings' = [ dmSettings EXCEPT !.active_hours_start = p.a,
                                                  !.active_hours_end = p.b ]
    /\ lastCall' = ConfigCall("receive_active_hours_config", inp)
    /\ UNCHANGED << settings, cooldown, cooldownTtl, dropped >>
    /\ ConfigFrame

----------------------------------------------------------------------------
(* DMTemplateManager: the rendering of a text template.  The random draws  *)
(* of the code are choices of the action.                                  *)

\* the texts of the templates, each with the texts re.sub makes of it
\* when random.choice takes every choice in turn
TemplateTexts ==
    { [ text |-> << "{", "a", "|", "b", "}" >>,
        outs |-> { << "a" >>, << "b" >> } ],
      [ text |-> << "x", "{", "a", "|", "b", "}", "y", "{", "c", "|", "d", "}" >>,
        outs |-> { << "x", "a", "y", "c" >>, << "x", "a", "y", "d" >>, << "x", "b", "y", "c" >>, << "x", "b", "y", "d" >> } ],
      [ text |-> << "{", "a", "|", "b", "}", "{", "a", "|", "b", "}" >>,
        outs |-> { << "a", "a" >>, << "a", "b" >>, << "b", "a" >>, << "b", "b" >> } ],
      [ text |-> << "{", "a", "}" >>,
        outs |-> { << "a" >> } ],
      [ text |-> << "{", "a", "|", "}" >>,
        outs |-> { << >>, << "a" >> } ],
      [ text |-> << "{", "}" >>,
        outs |-> { << "{", "}" >> } ],
      [ text |-> << "{", "}", "{", "a", "|", "b", "}" >>,
        outs |-> { << "{", "}", "a" >>, << "{", "}", "b" >> } ],
      [ text |-> << "a", "b" >>,
        outs |-> { << "a", "b" >> } ],
      [ text |-> << "@", "{", "b", "|", "c", "}" >>,
        outs |-> { << "@", "b" >>, << "@", "c" >> } ],
      [ text |-> << "@", "b", "{", "c", "|", "d", "}", " ", "e" >>,
        outs |-> { << "@", "b", "c", " ", "e" >>, << "@", "b", "d", " ", "e" >> } ],
      [ text |-> << "{", "@", "b", "|", "h", "i", "}" >>,
        outs |-> { << "@", "b" >>, << "h", "i" >> } ],
      [ text |-> << "{", "a", "|", "b" >>,
        outs |-> { << "{", "a", "|", "b" >> } ],
      [ text |-> << "a", "}", "{", "b", "|", "c", "}" >>,
        outs |-> { << "a", "}", "b" >>, << "a", "}", "c" >> } ],
      [ text |-> << "{", "a", "{", "b", "|", "c", "}" >>,
        outs |-> { << "a", "{", "b" >>, << "c" >> } ] }

\* texts with the text the conversion of line 5614 makes of them
LinkSamples ==
    { [ text |-> << "@", "b" >>,
        html |-> << "<", "a", " ", "h", "r", "e", "f", "=", "\"", "h", "t", "t", "p", "s", ":", "/", "/", "t", ".", "m", "e", "/", "b", "\"", ">", "@", "b", "<", "/", "a", ">" >> ],
      [ text |-> << "@", "b", " ", "c" >>,
        html |-> << "<", "a", " ", "h", "r", "e", "f", "=", "\"", "h", "t", "t", "p", "s", ":", "/", "/", "t", ".", "m", "e", "/", "b", "\"", ">", "@", "b", "<", "/", "a", ">", " ", "c" >> ],
      [ text |-> << "a", "@", "b", "_", "1" >>,
        html |-> << "a", "<", "a", " ", "h", "r", "e", "f", "=", "\"", "h", "t", "t", "p", "s", ":", "/", "/", "t", ".", "m", "e", "/", "b", "_", "1", "\"", ">", "@", "b", "_", "1", "<", "/", "a", ">" >> ],
      [ text |-> << "@" >>,
        html |-> << "@" >> ],
      [ text |-> << "@", " ", "b" >>,
        html |-> << "@", " ", "b" >> ],
      [ text |-> << "a", "@" >>,
        html |-> << "a", "@" >> ],
      [ text |-> << "@", "b", "U+1F60A" >>,
        html |-> << "<", "a", " ", "h", "r", "e", "f", "=", "\"", "h", "t", "t", "p", "s", ":", "/", "/", "t", ".", "m", "e", "/", "b", "\"", ">", "@", "b", "<", "/", "a", ">", "U+1F60A" >> ],
      [ text |-> << "@", "b", "U+200B", "U+200C" >>,
        html |-> << "<", "a", " ", "h", "r", "e", "f", "=", "\"", "h", "t", "t", "p", "s", ":", "/", "/", "t", ".", "m", "e", "/", "b", "\"", ">", "@", "b", "<", "/", "a", ">", "U+200B", "U+200C" >> ],
      [ text |-> << "@", "b", " ", "@", "c" >>,
        html |-> << "<", "a", " ", "h", "r", "e", "f", "=", "\"", "h", "t", "t", "p", "s", ":", "/", "/", "t", ".", "m", "e", "/", "b", "\"", ">", "@", "b", "<", "/", "a", ">", " ", "<", "a", " ", "h", "r", "e", "f", "=", "\"", "h", "t", "t", "p", "s", ":", "/", "/", "t", ".", "m", "e", "/", "c", "\"", ">", "@", "c", "<", "/", "a", ">" >> ],
      [ text |-> << "h", "i" >>,
        html |-> << "h", "i" >> ] }

\* the emojis of add_random_emoji
Emojis == { "U+1F60A", "U+1F44B", "U+2728", "U+1F31F", "U+1F4AB", "U+1F3AF", "U+1F525", "U+1F4AA", "U+1F44D", "U+1F64F" }

\* the zero width characters of add_invisible_timestamp
ZeroWidth == << "U+200B", "U+200C", "U+200D", "U+2060" >>

\* the end of the match of \{([^}]+)\} that starts at i, or 0 when there is
\* none: the first "}" after i, with at least one character before it
MatchEnd(text, i) ==
    IF text[i] # "{" THEN 0
    ELSE LET closes == { j \in (i + 1)..Len(text) : text[j] = "}" }
         IN  IF closes = {} THEN 0
             ELSE LET j == CHOOSE k \in closes : \A l \in closes : k <= l
                  IN  IF j > i + 1 THEN j ELSE 0

\* choices that also offer the whole group
SpinChoicesWithGroup(group) ==
    { SplitBar(group)[k] : k \in 1..Len(SplitBar(group)) } \cup { group }

\* replace_choice, lines 1113-1115: what random.choice can take of
\* match.group(1).split('|')
SpinChoices(group) == { SplitBar(group)[k] : k \in 1..Len(SplitBar(group)) }

\* re.sub(pattern, replace_choice, text) from position i on: the matches
\* are taken from left to right and what replaces them is not read again
RECURSIVE SpintaxFrom(_, _)
SpintaxFrom(text, i) ==
    IF i > Len(text) THEN { << >> }
    ELSE IF MatchEnd(text, i) # 0
         THEN { c \o rest :
                    c \in SpinChoices(SubSeq(text, i + 1, MatchEnd(text, i) - 1)),
                    rest \in SpintaxFrom(text, MatchEnd(text, i) + 1) }
         ELSE { << text[i] >> \o rest : rest \in SpintaxFrom(text, i + 1) }

\* process_spintax, lines 1105-1117: the texts it can return
ProcessSpintax(text) == SpintaxFrom(text, 1)

\* add_random_emoji, lines 1119-1123, with the emoji drawn
AddRandomEmoji(text, e) == text \o << " ", e >>

\* shorter runs of zero width characters
PadLengthsFrom5 == 5..10

\* random.randint(6, 10), line 1137
PadLengths == 6..10

\* the runs of zero width characters the model draws: of every length, one
\* character repeated or the four in turn from any of them on
PadDraws ==
    UNION { { [ k \in 1..n |-> ZeroWidth[((k + o) % 4) + 1] ] : o \in 0..3 }
              \cup { [ k \in 1..n |-> ZeroWidth[1] ] } : n \in PadLengths }

\* add_invisible_timestamp, lines 1125-1140, with the run drawn
AddInvisibleTimestamp(text, pad) == text \o pad

\* \w for the characters of the model: letters, digits and the underscore
IsWordChar(c) ==
    \/ \E i \in 1..26 : c = LowerCase[i] \/ c = UpperCase[i]
    \/ IsDigit(c)
    \/ c = "_"

\* the end of the match of @(\w+) that starts at i, or 0
MentionEnd(text, i) ==
    IF text[i] # "@" \/ i = Len(text) \/ ~IsWordChar(text[i + 1]) THEN 0
    ELSE CHOOSE j \in (i + 1)..Len(text) :
            /\ \A k \in (i + 1)..j : IsWordChar(text[k])
            /\ j = Len(text) \/ ~IsWordChar(text[j + 1])

LinkHead == << "<", "a", " ", "h", "r", "e", "f", "=", "\"", "h", "t", "t", "p", "s",
               ":", "/", "/", "t", ".", "m", "e", "/" >>

\* re.sub(r'@(\w+)', r'<a href="https://t.me/\1">@\1</a>', result), line 5614
RECURSIVE LinkFrom(_, _)
LinkFrom(text, i) ==
    IF i > Len(text) THEN << >>
    ELSE IF MentionEnd(text, i) # 0
         THEN LET name == SubSeq(text, i + 1, MentionEnd(text, i))
              IN  LinkHead \o name \o << "\"", ">", "@" >> \o name
                      \o << "<", "/", "a", ">" >>
                      \o LinkFrom(text, MentionEnd(text, i) + 1)
         ELSE << text[i] >> \o LinkFrom(text, i + 1)

ConvertMentions(text) == LinkFrom(text, 1)

\* the record of a rendering: the template, the switches, the text after
\* the substitution, after the emoji, after the padding, and what is sent
Rendering(op, tpl, use_emoji, use_timestamp, sub, e, pad, sent) ==
    LET decorated == IF use_emoji THEN AddRandomEmoji(sub, e) ELSE sub
        result == IF use_timestamp THEN AddInvisibleTimestamp(decorated, pad)
                  ELSE decorated
    IN  [ op |-> op, n |-> 1, tpl |-> tpl, use_emoji |-> use_emoji,
          use_timestamp |-> use_timestamp, sub |-> sub, decorated |-> decorated,
          result |-> result,
          sent |-> IF sent THEN ConvertMentions(result) ELSE result ]

RenderFrame ==
    /\ UNCHANGED kwVars
    /\ UNCHANGED ingestVars
    /\ UNCHANGED dispatchVars
    /\ UNCHANGED << reply, verdict, availCall, sentLog, tplList, issued, tplUsed,
                    probes, clients, startPhone, stickers >>

\* the draws of one rendering: a draw that is not made is the first one
Draws(use_emoji, use_timestamp) ==
    { d \in [ e : Emojis, pad : PadDraws ] :
        /\ use_emoji \/ d.e = "U+1F60A"
        /\ use_timestamp \/ d.pad = [ k \in 1..6 |-> ZeroWidth[1] ] }

\* generate_text_variant, lines 1142-1162
GenerateTextVariant(tpl, use_emoji, use_timestamp) ==
    /\ lastCall = NoOp
    /\ \E sub \in ProcessSpintax(tpl.text), d \in Draws(use_emoji, use_timestamp) :
          lastCall' = Rendering("generate_text_variant", tpl, use_emoji,
                                use_timestamp, sub, d.e, d.pad, FALSE)
    /\ RenderFrame

\* _send_dm_by_template for a text template, lines 5590-5624: the text
\* handed to send_message
SendTextTemplate(tpl, use_emoji, use_timestamp) ==
    /\ lastCall = NoOp
    /\ \E sub \in ProcessSpintax(tpl.text), d \in Draws(use_emoji, use_timestamp) :
          lastCall' = Rendering("send_text", tpl, use_emoji,
                                use_timestamp, sub, d.e, d.pad, TRUE)
    /\ RenderFrame

----------------------------------------------------------------------------
(* FilterManager.check_user_filter on its own *)

\* the senders: with and without username and photo, ids on both sides of
\* the three thresholds
FilterIds ==
    { [ giga |-> 0, rest |-> 101 ], [ giga |-> 0, rest |-> Giga - 1 ],
      [ giga |-> 1, rest |-> 0 ], [ giga |-> 1, rest |-> Giga - 1 ],
      [ giga |-> 2, rest |-> 0 ], [ giga |-> 4, rest |-> Giga - 1 ],
      [ giga |-> 5, rest |-> 0 ], [ giga |-> 7, rest |-> 1 ] }

FilterUsers == [ username : { "", "alice" }, photo : BOOLEAN, id : FilterIds ]

\* the settings of the filter: both switches, and minimum ages from the
\* range receive_min_age accepts, around the estimated ages
MinAges == { 0, 1, 30, 31, 180, 181, 365 }

FilterSettings ==
    { [ DefaultSettings EXCEPT !.filter_no_username = nu, !.filter_no_avatar = na,
                               !.min_account_age_days = age ] :
        nu \in BOOLEAN, na \in BOOLEAN, age \in MinAges }

\* a call of check_user_filter(user)
CheckUserFilterCall(user) ==
    /\ lastCall' = [ op |-> "check_user_filter", n |-> 1, user |-> user,
                     settings |-> settings,
                     ret |-> CheckUserFilterResult(settings, user.username,
                                                   user.photo, user.id) ]
    /\ UNCHANGED kwVars
    /\ UNCHANGED ingestVars
    /\ UNCHANGED dispatchVars
    /\ UNCHANGED << reply, verdict, availCall, sentLog, tplList, issued, tplUsed,
                    probes, clients, startPhone, stickers >>

----------------------------------------------------------------------------
(* The batched probing of the outbound identities: dm_connect_clients,     *)
(* dm_check_all_status and the import of uploaded sessions run the same    *)
(* loop over the list they read when they start.  The identities of a run  *)
(* are numbered 1..total in the order of the list.                         *)

BatchSize == 10

RunKinds == { "connect", "status", "import" }

\* no run has been started
NoRun == [ kind |-> "none", total |-> 0, i |-> 0, pos |-> << >>,
           starts |-> << >>, finished |-> FALSE ]

\* a batch that takes the whole rest of the list
BatchOfRest(i, total) == { p \in 1..total : i < p }

\* accounts[i:i + batch_size], as positions in the list
BatchOf(i, total) == { p \in 1..total : i < p /\ p <= i + BatchSize }

\* asyncio.gather(*tasks) on the coroutines of the batch that starts at i:
\* each one becomes a task of the event loop
Launch(run, i) ==
    [ run EXCEPT !.i = i,
                 !.pos = [ p \in 1..run.total |->
                             IF p \in BatchOf(i, run.total) THEN "flying"
                             ELSE run.pos[p] ],
                 !.starts = [ p \in 1..run.total |->
                             IF p \in BatchOf(i, run.total) THEN run.starts[p] + 1
                             ELSE run.starts[p] ] ]

\* for i in range(0, total, batch_size): the next round of the loop
Round(run, i) ==
    IF i < run.total THEN Launch(run, i) ELSE [ run EXCEPT !.finished = TRUE ]

ProbeFrame ==
    /\ UNCHANGED kwVars
    /\ UNCHANGED ingestVars
    /\ UNCHANGED dispatchVars
    /\ UNCHANGED << reply, verdict, availCall, sentLog, tplList, issued, tplUsed,
                    lastCall, clients, startPhone, stickers >>

\* the handler reads the list and enters the loop
StartRun(kind, total) ==
    /\ probes = NoRun
    /\ probes' = Round([ kind |-> kind, total |-> total, i |-> 0,
                         pos |-> [ p \in 1..total |-> "waiting" ],
                         starts |-> [ p \in 1..total |-> 0 ],
                         finished |-> FALSE ], 0)
    /\ ProbeFrame

\* the identities whose probe may fail: the first one of each batch
Failing == { p \in 1..(3 * BatchSize) : p % BatchSize = 1 }

\* one probe returns its result or raises
ProbeEnd(p, ok) ==
    /\ p \in 1..probes.total
    /\ probes.pos[p] = "flying"
    /\ ok \/ p \in Failing
    /\ probes' = [ probes EXCEPT !.pos[p] = IF ok THEN "ok" ELSE "failed" ]
    /\ ProbeFrame

\* gather returns when every probe of the batch has ended; the results
\* are counted and the loop goes on
NextBatch ==
    /\ probes.kind # "none"
    /\ ~probes.finished
    /\ \A p \in BatchOf(probes.i, probes.total) : probes.pos[p] \in { "ok", "failed" }
    /\ probes' = Round(probes, probes.i + BatchSize)
    /\ ProbeFrame

----------------------------------------------------------------------------
(* Initial states and specifications *)

\* no status probe has run
----------------------------------------------------------------------------
(* DMStickerManager.get_random_sticker.  A sticker is its document id.     *)

StickerNames == { "s1", "s2", "s3" }

\* the documents of the sticker sets on the server: one set holds none
StickerDocs(name) ==
    IF name = "s1" THEN { 1, 2 } ELSE IF name = "s3" THEN { 3 } ELSE {}

NoSticker == 0

\* the manager after construction (lines 1395-1400) with no configured set
\* and no call: sets is sticker_sets, broken the sets whose request fails,
\* cache the names in sticker_cache, used is used_sticker_ids; the call:
\* its position (pc), the sets of the shuffled list it has not visited
\* (rest), the number of passes it has begun (depth), what the last call
\* returned (ret); history: the calls made, the stickers returned since
\* the used-set was last cleared (given), whether the last return repeated
\* one of them (again), the unused stickers of the loadable sets at the
\* last clear (left)
NoStickers ==
    [ sets |-> << >>, broken |-> {}, cache |-> {}, used |-> {}, pc |-> "idle",
      rest |-> << >>, depth |-> 0, ret |-> NoSticker, calls |-> 0, given |-> {},
      again |-> FALSE, left |-> {} ]

MaxStickerCalls == 4
MaxPasses == 3

\* random.shuffle: the orders it can produce
Shuffles(list) ==
    { p \in [ 1..Len(list) -> Range(list) ] :
        \A i, j \in 1..Len(list) : p[i] = p[j] => i = j }

StickerFrame ==
    /\ UNCHANGED << kwVars, ingestVars, dispatchVars >>
    /\ UNCHANGED << reply, verdict, availCall, sentLog, tplList, issued, tplUsed,
                    lastCall, probes, clients, startPhone >>

\* lines 1463-1470: the call starts; without a configured set it returns
\* None, else it shuffles a copy of the list and enters the loop
GetRandomSticker ==
    /\ stickers.pc = "idle"
    /\ stickers.calls < MaxStickerCalls
    /\ IF stickers.sets = << >>
       THEN stickers' = [ stickers EXCEPT !.calls = @ + 1, !.depth = 0,
                                          !.ret = NoSticker, !.again = FALSE ]
       ELSE \E order \in Shuffles(stickers.sets) :
              stickers' = [ stickers EXCEPT !.calls = @ + 1, !.pc = "loop",
                                            !.rest = order, !.depth = 1 ]
    /\ StickerFrame

\* lines 1472-1486 and get_sticker_set, lines 1446-1461: the next set of
\* the shuffled list is taken from the cache or requested; a set that fails
\* to load or has no unused sticker is passed over, else one of its unused
\* stickers is marked used and returned
VisitStickerSet ==
    /\ stickers.pc = "loop"
    /\ stickers.rest # << >>
    /\ LET name   == Head(stickers.rest)
           loaded == name \in stickers.cache \/ name \notin stickers.broken
           avail  == StickerDocs(name) \ stickers.used
       IN  IF ~loaded
           THEN stickers' = [ stickers EXCEPT !.rest = Tail(@) ]
           ELSE IF avail = {}
           THEN stickers' = [ stickers EXCEPT !.rest = Tail(@),
                                              !.cache = @ \cup { name } ]
           ELSE \E s \in avail :
                  stickers' = [ stickers EXCEPT !.cache = @ \cup { name },
                                                !.used = @ \cup { s },
                                                !.given = @ \cup { s },
                                                !.again = s \in stickers.given,
                                                !.ret = s, !.pc = "idle",
                                                !.rest = << >> ]
    /\ StickerFrame

\* lines 1488-1493: no set gave a sticker; the used-set is cleared and the
\* function calls itself, which shuffles again
ResetAndRetry ==
    /\ stickers.pc = "loop"
    /\ stickers.rest = << >>
    /\ stickers.depth < MaxPasses
    /\ \E order \in Shuffles(stickers.sets) :
          stickers' = [ stickers EXCEPT
                          !.left = UNION { StickerDocs(n) \ stickers.used :
                                             n \in Range(stickers.sets) \ stickers.broken },
                          !.used = {}, !.given = {},
                          !.rest = order, !.depth = @ + 1 ]
    /\ StickerFrame

NoPhone == "-"

\* lines 2334-2336 and 2405-2407: every monitoring identity was added by the
\* login flow, whose handler is bound to the phone of its own call
LoggedIn ==
    /\ clients = [ m \in Monitors |-> "login" ]
    /\ startPhone = NoPhone

RestIdle ==
    /\ sentLog = NoSentLog
    /\ tplList = << >>
    /\ issued = << >>
    /\ tplUsed = {}
    /\ lastCall = NoOp
    /\ probes = NoRun
    /\ LoggedIn
    /\ stickers = NoStickers

LibIdle ==
    /\ reply = << >>
    /\ verdict = NoVerdict
    /\ availCall = NoAvailCall
    /\ RestIdle

KwIdle == keywords = << >> /\ kwCall = NoCall /\ LibIdle

IngestIdle ==
    /\ nowMin = 0
    /\ processed = << >>
    /\ cooldown = << >>
    /\ cooldownTtl = DefaultSettings.cooldown_minutes
    /\ settings = DefaultSettings
    /\ blockedUsers = {}
    /\ blockedChats = {}
    /\ blUsers = << >>
    /\ blChats = << >>
    /\ filtered = 0
    /\ inbox = << >>
    /\ handlers = [ h \in {} |-> IdleHandler ]
    /\ alerts = << >>
    /\ records = << >>
    /\ spawned = << >>
    /\ dropped = {}

DispatchIdle ==
    /\ nowHour = StartHour
    /\ accounts = << >>
    /\ dmClients = [ p \in Phones |-> "none" ]
    /\ dmSettings = DefaultDmSettings
    /\ templates = {}
    /\ sentUsers = [ u \in UserIds |-> NoTime ]
    /\ dmRecords = << >>
    /\ tasks = [ t \in TaskIds |-> IdleTask ]
    /\ sendLog = << >>
    /\ cleared = 0

\* KeywordManager: an empty list and calls of add_keywords, remove_keyword
InitKeywords == KwIdle /\ IngestIdle /\ DispatchIdle

NextKeywords ==
    \/ \E raws \in KwCalls : AddKeywords(raws)
    \/ \E k \in Range(keywords) : RemoveKeyword(k)

SpecKeywords == InitKeywords /\ [][NextKeywords]_vars

\* the ingestion pipeline over a given traffic
InitIngest(traffic) ==
    /\ keywords = IngestKeywords
    /\ kwCall = NoCall
    /\ LibIdle
    /\ nowMin = 0
    /\ processed = << >>
    /\ cooldown = << >>
    /\ cooldownTtl = DefaultSettings.cooldown_minutes
    /\ settings = DefaultSettings
    /\ blockedUsers = {}
    /\ blockedChats = {}
    /\ blUsers = << >>
    /\ blChats = << >>
    /\ filtered = 0
    /\ inbox = traffic
    /\ handlers = [ h \in { x \in Monitors \X (1..Len(traffic)) :
                                x[1] \in traffic[x[2]].seenBy } |-> IdleHandler ]
    /\ alerts = << >>
    /\ records = << >>
    /\ spawned = << >>
    /\ dropped = {}
    /\ DispatchIdle

CooldownChoices == { 0, 1 }

NextIngest ==
    \/ \E h \in HandlerIds : Deliver(h)
    \/ \E h \in HandlerIds, raised \in BOOLEAN : Lookup(h, raised)
    \/ \E h \in HandlerIds, raised \in BOOLEAN : PublishAlert(h, raised)
    \/ \E m \in CooldownChoices : ReceiveCooldown(m)
    \/ \E d \in MinuteSteps : TickMinute(d)

NextGates ==
    \/ \E h \in HandlerIds : Deliver(h)
    \/ \E h \in HandlerIds, raised \in BOOLEAN : Lookup(h, raised)
    \/ \E h \in HandlerIds, raised \in BOOLEAN : PublishAlert(h, raised)
    \/ \E e \in EventIds : BlockUser(inbox[e].sender.id)
    \/ \E e \in EventIds : BlockChat(inbox[e].chat)

InitCooldown == InitIngest(CooldownTraffic)
SpecIngest == InitCooldown /\ [][NextIngest]_vars

InitGates == InitIngest(GateTraffic)
SpecGates == InitGates /\ [][NextGates]_vars

\* start_multi_account_clients (lines 5116-5154) with the pipeline running
\* on the clients it has started. The enabled accounts of the monitor pool,
\* in list order
StartAccounts == << "m1", "m2" >>

StartOutcomes == { "ok", "unauthorized", "error" }

StartTraffic ==
    << Event(10, 1, Alice, << "c" >>, TRUE, Monitors),
       Event(20, 2, Bob, << "c" >>, TRUE, { "m1" }),
       Event(30, 3, Bob, << "a", "b" >>, TRUE, { "m2" }) >>

StartFrame ==
    /\ UNCHANGED << kwVars, ingestVars, dispatchVars >>
    /\ UNCHANGED << reply, verdict, availCall, sentLog, tplList, issued, tplUsed,
                    lastCall, probes, stickers >>

\* lines 5123-5134: the loop takes the next account, assigns phone, creates
\* the client and suspends in connect
BeginStart(i) ==
    /\ i \in 1..Len(StartAccounts)
    /\ \A m \in Monitors : clients[m] # "connecting"
    /\ clients[StartAccounts[i]] = "none"
    /\ \A j \in 1..(i - 1) : clients[StartAccounts[j]] # "none"
    /\ startPhone' = StartAccounts[i]
    /\ clients' = [ clients EXCEPT ![StartAccounts[i]] = "connecting" ]
    /\ StartFrame

\* lines 5134-5153: connect, is_user_authorized and get_me return; the
\* client is stored and its handler registered, or the account is skipped
FinishStart(outcome) ==
    /\ startPhone \in Monitors
    /\ clients[startPhone] = "connecting"
    /\ clients' = [ clients EXCEPT ![startPhone] =
                      IF outcome = "ok" THEN "start" ELSE "failed" ]
    /\ UNCHANGED startPhone
    /\ StartFrame

InitStartup ==
    /\ keywords = IngestKeywords
    /\ kwCall = NoCall
    /\ reply = << >>
    /\ verdict = NoVerdict
    /\ availCall = NoAvailCall
    /\ sentLog = NoSentLog
    /\ tplList = << >>
    /\ issued = << >>
    /\ tplUsed = {}
    /\ lastCall = NoOp
    /\ probes = NoRun
    /\ clients = [ m \in Monitors |-> "none" ]
    /\ startPhone = NoPhone
    /\ stickers = NoStickers
    /\ nowMin = 0
    /\ processed = << >>
    /\ cooldown = << >>
    /\ cooldownTtl = DefaultSettings.cooldown_minutes
    /\ settings = DefaultSettings
    /\ blockedUsers = {}
    /\ blockedChats = {}
    /\ blUsers = << >>
    /\ blChats = << >>
    /\ filtered = 0
    /\ inbox = StartTraffic
    /\ handlers = [ h \in { x \in Monitors \X (1..Len(StartTraffic)) :
                                x[1] \in StartTraffic[x[2]].seenBy } |-> IdleHandler ]
    /\ alerts = << >>
    /\ records = << >>
    /\ spawned = << >>
    /\ dropped = {}
    /\ DispatchIdle

NextStartup ==
    \/ \E i \in 1..Len(StartAccounts) : BeginStart(i)
    \/ \E o \in StartOutcomes : FinishStart(o)
    \/ \E h \in HandlerIds : Deliver(h)
    \/ \E h \in HandlerIds, raised \in BOOLEAN : Lookup(h, raised)
    \/ \E h \in HandlerIds, raised \in BOOLEAN : PublishAlert(h, raised)

SpecStartup == InitStartup /\ [][NextStartup]_vars

\* the account pool under its status-changing operations
InitPool == KwIdle /\ IngestIdle /\ DispatchIdle

ReconnectOutcomes == { "ok", "unauthorized", "error" }

NextPool ==
    \/ \E p \in Phones, o \in ReconnectOutcomes : ConnectDmClient(p, o)
    \/ \E p \in Phones, r \in ProbeResults : CheckSingleAccount(p, r)
    \/ \E p \in Phones, r \in ProbeResults : CheckAndImportSession(p, r)
    \/ \E p \in Phones : DeleteAccount(p)
    \/ \E p \in Phones : DropClient(p)

SpecPool == InitPool /\ [][NextPool]_vars

\* the dispatch scheduler: one active identity that stays connected, one
\* template
InitDispatch ==
    /\ KwIdle
    /\ IngestIdle
    /\ nowHour = StartHour
    /\ accounts = << [ phone |-> "p1", status |-> "active", can_send_dm |-> TRUE,
                       daily_sent |-> 0, last_sent_date |-> NoDate ] >>
    /\ dmClients = [ p \in Phones |-> IF p = "p1" THEN "up" ELSE "none" ]
    /\ dmSettings = [ DefaultDmSettings EXCEPT !.daily_limit = 1 ]
    /\ templates = { 1 }
    /\ sentUsers = [ u \in UserIds |-> NoTime ]
    /\ dmRecords = << >>
    /\ tasks = [ t \in TaskIds |-> IdleTask ]
    /\ sendLog = << >>
    /\ cleared = 0

NextDispatch ==
    \/ \E t \in TaskIds, u \in DispatchUsers : Trigger(t, u)
    \/ \E t \in TaskIds, r \in ReconnectOutcomes : DmWake(t, r)
    \/ \E t \in TaskIds, ok, notified \in BOOLEAN : DmFinish(t, ok, notified)
    \/ \E d \in HourSteps : TickHour(d)
    \/ ClearSentUsers

SpecDispatch == InitDispatch /\ [][NextDispatch]_vars

\* one dispatch attempt after another under every setting the eligibility
\* checks look at: the switch, the templates, the hour, the state of the
\* one identity; its connection may drop
AttemptAccounts ==
    { [ phone |-> "p1", status |-> "active", can_send_dm |-> TRUE,
        daily_sent |-> 0, last_sent_date |-> NoDate ],
      [ phone |-> "p1", status |-> "active", can_send_dm |-> TRUE,
        daily_sent |-> 1, last_sent_date |-> 0 ],
      [ phone |-> "p1", status |-> "restricted", can_send_dm |-> FALSE,
        daily_sent |-> 0, last_sent_date |-> NoDate ] }

InitAttempt ==
    /\ KwIdle
    /\ IngestIdle
    /\ nowHour \in { StartHour, StartHour + 14 }
    /\ accounts \in { << a >> : a \in AttemptAccounts }
    /\ dmClients = [ p \in Phones |-> IF p = "p1" THEN "up" ELSE "none" ]
    /\ dmSettings \in { [ DefaultDmSettings EXCEPT !.daily_limit = 1, !.enabled = on ] :
                           on \in BOOLEAN }
    /\ templates \in { {}, { 1 } }
    /\ sentUsers = [ u \in UserIds |-> NoTime ]
    /\ dmRecords = << >>
    /\ tasks = [ t \in TaskIds |-> IdleTask ]
    /\ sendLog = << >>
    /\ cleared = 0

NextAttempt ==
    \/ \E t \in TaskIds, u \in DispatchUsers : Trigger(t, u)
    \/ \E t \in TaskIds, r \in ReconnectOutcomes : DmWake(t, r)
    \/ \E t \in TaskIds, ok, notified \in BOOLEAN : DmFinish(t, ok, notified)
    \/ \E d \in HourSteps : TickHour(d)
    \/ \E p \in Phones : DropClient(p)

SpecAttempt == InitAttempt /\ [][NextAttempt]_vars

\* dm_toggle, lines 3372-3382: the admin flips the switch of the outbound
\* feature
DmToggle ==
    /\ dmSettings' = [ dmSettings EXCEPT !.enabled = ~dmSettings.enabled ]
    /\ UNCHANGED << nowHour, accounts, dmClients, templates, sentUsers, dmRecords,
                    tasks, sendLog, cleared >>
    /\ UNCHANGED << kwVars, ingestVars, libVars >>

\* dispatch attempts in the last hour of the active window of the second
\* day, while the admin re-checks the status of the identities and flips
\* the switch, and the clock passes the end of the window
RecheckSteps == { 1 }

RecheckResults == { << "active", TRUE >>, << "restricted", FALSE >>, << "failed", FALSE >> }

InitRecheck ==
    /\ KwIdle
    /\ IngestIdle
    /\ nowHour = StartHour + 36
    /\ accounts = << [ phone |-> "p1", status |-> "active", can_send_dm |-> TRUE,
                       daily_sent |-> 0, last_sent_date |-> NoDate ] >>
    /\ dmClients = [ p \in Phones |-> IF p = "p1" THEN "up" ELSE "none" ]
    /\ dmSettings = DefaultDmSettings
    /\ templates = { 1 }
    /\ sentUsers = [ u \in UserIds |-> NoTime ]
    /\ dmRecords = << >>
    /\ tasks = [ t \in TaskIds |-> IdleTask ]
    /\ sendLog = << >>
    /\ cleared = 0

NextRecheck ==
    \/ \E t \in TaskIds, u \in DispatchUsers : Trigger(t, u)
    \/ \E t \in TaskIds, r \in ReconnectOutcomes : DmWake(t, r)
    \/ \E t \in TaskIds, ok, notified \in BOOLEAN : DmFinish(t, ok, notified)
    \/ \E p \in Phones, r \in RecheckResults : CheckSingleAccount(p, r)
    \/ DmToggle
    \/ \E d \in RecheckSteps : TickHour(d)

SpecRecheck == InitRecheck /\ [][NextRecheck]_vars

\* the daily counters of two identities that stay in the pool and stay
\* connected, over three days, while the admin re-checks the status of the
\* first
InitCounter ==
    /\ KwIdle
    /\ IngestIdle
    /\ nowHour = StartHour
    /\ accounts = << [ phone |-> "p1", status |-> "active", can_send_dm |-> TRUE,
                       daily_sent |-> 0, last_sent_date |-> NoDate ],
                     [ phone |-> "p2", status |-> "active", can_send_dm |-> TRUE,
                       daily_sent |-> 0, last_sent_date |-> NoDate ] >>
    /\ dmClients = [ p \in Phones |-> "up" ]
    /\ dmSettings = [ DefaultDmSettings EXCEPT !.daily_limit = 2 ]
    /\ templates = { 1 }
    /\ sentUsers = [ u \in UserIds |-> NoTime ]
    /\ dmRecords = << >>
    /\ tasks = [ t \in TaskIds |-> IdleTask ]
    /\ sendLog = << >>
    /\ cleared = 0

NextCounter ==
    \/ \E t \in TaskIds, u \in { Alice, Bob } : Trigger(t, u)
    \/ \E t \in TaskIds : DmWake(t, "ok")
    \/ \E t \in TaskIds, ok \in BOOLEAN : DmFinish(t, ok, ok)
    \/ \E r \in { << "active", TRUE >>, << "restricted", FALSE >> } :
          CheckSingleAccount("p1", r)
    \/ \E d \in HourSteps : TickHour(d)

SpecCounter == InitCounter /\ [][NextCounter]_vars

\* get_random_sticker under every configuration of one or two sticker sets,
\* each of which may fail to load
StickerLists ==
    { << >>, << "s1" >>, << "s2" >>, << "s3" >>, << "s1", "s2" >>, << "s1", "s3" >>,
      << "s2", "s3" >> }

InitStickers ==
    /\ keywords = << >>
    /\ kwCall = NoCall
    /\ reply = << >>
    /\ verdict = NoVerdict
    /\ availCall = NoAvailCall
    /\ sentLog = NoSentLog
    /\ tplList = << >>
    /\ issued = << >>
    /\ tplUsed = {}
    /\ lastCall = NoOp
    /\ probes = NoRun
    /\ LoggedIn
    /\ IngestIdle
    /\ DispatchIdle
    /\ stickers \in { [ NoStickers EXCEPT !.sets = l, !.broken = b ] :
                         l \in StickerLists, b \in SUBSET StickerNames }

NextStickers ==
    \/ GetRandomSticker
    \/ VisitStickerSet
    \/ ResetAndRetry

SpecStickers == InitStickers /\ [][NextStickers]_vars

\* ingestion and dispatch together, with failures of the sender lookup, the
\* alert sink and the transport: two messages seen by one monitoring
\* identity and one seen by the other
IsolationTraffic ==
    << Event(10, 1, Alice, << "c" >>, TRUE, { "m1" }),
       Event(10, 2, Bob, << "c" >>, TRUE, { "m1" }),
       Event(20, 3, Bob, << "a", "b" >>, TRUE, { "m2" }) >>

InitIsolation ==
    /\ keywords = IngestKeywords
    /\ kwCall = NoCall
    /\ LibIdle
    /\ nowMin = 0
    /\ processed = << >>
    /\ cooldown = << >>
    /\ cooldownTtl = DefaultSettings.cooldown_minutes
    /\ settings = DefaultSettings
    /\ blockedUsers = {}
    /\ blockedChats = {}
    /\ blUsers = << >>
    /\ blChats = << >>
    /\ filtered = 0
    /\ inbox = IsolationTraffic
    /\ handlers = [ h \in { x \in Monitors \X (1..Len(IsolationTraffic)) :
                                x[1] \in IsolationTraffic[x[2]].seenBy } |-> IdleHandler ]
    /\ alerts = << >>
    /\ records = << >>
    /\ spawned = << >>
    /\ dropped = {}
    /\ nowHour = StartHour
    /\ accounts = << [ phone |-> "p1", status |-> "active", can_send_dm |-> TRUE,
                       daily_sent |-> 0, last_sent_date |-> NoDate ] >>
    /\ dmClients = [ p \in Phones |-> IF p = "p1" THEN "up" ELSE "none" ]
    /\ dmSettings = DefaultDmSettings
    /\ templates = { 1 }
    /\ sentUsers = [ u \in UserIds |-> NoTime ]
    /\ dmRecords = << >>
    /\ tasks = [ t \in TaskIds |-> IdleTask ]
    /\ sendLog = << >>
    /\ cleared = 0

\* a dispatch task is the one created for an alert (line 5333)
NextIsolation ==
    \/ \E h \in HandlerIds : Deliver(h)
    \/ \E h \in HandlerIds, raised \in BOOLEAN : Lookup(h, raised)
    \/ \E h \in HandlerIds, raised \in BOOLEAN : PublishAlert(h, raised)
    \/ \E t \in TaskIds, u \in DispatchUsers :
          /\ t <= Len(spawned)
          /\ spawned[t].user = u.id
          /\ Trigger(t, u)
    \/ \E t \in TaskIds : DmWake(t, "ok")
    \/ \E t \in TaskIds, ok, notified \in BOOLEAN : DmFinish(t, ok, notified)

SpecIsolation == InitIsolation /\ [][NextIsolation]_vars

\* the blacklist under its six operations, from empty
BlacklistUsers == { 101, 102, 103 }
BlacklistChats == { 10, 20, 30 }

InitBlacklist == KwIdle /\ IngestIdle /\ DispatchIdle

NextBlacklist ==
    \/ \E u \in BlacklistUsers : AddUser(u)
    \/ \E c \in BlacklistChats : AddChat(c)
    \/ \E u \in BlacklistUsers : RemoveUser(u)
    \/ \E c \in BlacklistChats : RemoveChat(c)
    \/ ClearUsers
    \/ ClearChats

SpecBlacklist == InitBlacklist /\ [][NextBlacklist]_vars

\* the sent registry under its three operations, the clock moving in half
\* windows
RegistryUsers == { Alice.id, Bob.id }
RegistrySteps == { 12 }

InitRegistry == KwIdle /\ IngestIdle /\ DispatchIdle

NextRegistry ==
    \/ \E u \in RegistryUsers : AddSentUser(u)
    \/ \E u \in RegistryUsers : AskUserSent(u)
    \/ ClearSentUsers
    \/ \E d \in RegistrySteps : TickHour(d)

SpecRegistry == InitRegistry /\ [][NextRegistry]_vars

\* the template store under additions and removals, and dispatch records
\* that name a template
InitTemplates == KwIdle /\ IngestIdle /\ DispatchIdle

NextTemplates ==
    \/ AddTemplate
    \/ \E id \in 1..MaxTemplates : RemoveTemplate(id)
    \/ \E i \in 1..MaxTemplates : RecordTemplate(i)

SpecTemplates == InitTemplates /\ [][NextTemplates]_vars

\* the two logs, each empty, short, one below the cap or at the cap; the
\* records are numbered in the order they were written, a new one has the
\* number 0
RecordLens == { 0, 1, MaxRecords - 1, MaxRecords }
OldLog(n) == [ i \in 1..n |-> [ serial |-> i ] ]
NewRecords == { [ serial |-> 0 ] }

InitRecords ==
    /\ keywords = << >>
    /\ kwCall = NoCall
    /\ LibIdle
    /\ nowMin = 0
    /\ processed = << >>
    /\ cooldown = << >>
    /\ cooldownTtl = DefaultSettings.cooldown_minutes
    /\ settings = DefaultSettings
    /\ blockedUsers = {}
    /\ blockedChats = {}
    /\ blUsers = << >>
    /\ blChats = << >>
    /\ filtered = 0
    /\ inbox = << >>
    /\ handlers = [ h \in {} |-> IdleHandler ]
    /\ alerts = << >>
    /\ records \in { OldLog(n) : n \in RecordLens }
    /\ spawned = << >>
    /\ dropped = {}
    /\ nowHour = StartHour
    /\ accounts = << >>
    /\ dmClients = [ p \in Phones |-> "none" ]
    /\ dmSettings = DefaultDmSettings
    /\ templates = {}
    /\ sentUsers = [ u \in UserIds |-> NoTime ]
    /\ dmRecords \in { OldLog(n) : n \in RecordLens }
    /\ tasks = [ t \in TaskIds |-> IdleTask ]
    /\ sendLog = << >>
    /\ cleared = 0

NextRecords ==
    \/ \E r \in NewRecords : AddTriggerRecord(r)
    \/ \E r \in NewRecords : AddDispatchRecord(r)

SpecRecords == InitRecords /\ [][NextRecords]_vars

\* the configuration handlers, with one pair in cooldown
InitConfig ==
    /\ keywords = IngestKeywords
    /\ kwCall = NoCall
    /\ LibIdle
    /\ nowMin = 0
    /\ processed = << >>
    /\ cooldown = << [ key |-> CooldownKey(Alice, << "c" >>), at |-> 0 ] >>
    /\ cooldownTtl = DefaultSettings.cooldown_minutes
    /\ settings = DefaultSettings
    /\ blockedUsers = {}
    /\ blockedChats = {}
    /\ blUsers = << >>
    /\ blChats = << >>
    /\ filtered = 0
    /\ inbox = << >>
    /\ handlers = [ h \in {} |-> IdleHandler ]
    /\ alerts = << >>
    /\ records = << >>
    /\ spawned = << >>
    /\ dropped = {}
    /\ DispatchIdle

NextConfig ==
    \/ \E inp \in CooldownInputs : ReceiveCooldownMessage(inp)
    \/ \E inp \in MaxLengthInputs : ReceiveMaxLength(inp)
    \/ \E inp \in MinAgeInputs : ReceiveMinAge(inp)
    \/ \E inp \in DailyLimitInputs : ReceiveDailyLimitConfig(inp)
    \/ \E inp \in DelayInputs : ReceiveDelayConfig(inp)
    \/ \E inp \in ActiveHoursInputs : ReceiveActiveHoursConfig(inp)

SpecConfig == InitConfig /\ [][NextConfig]_vars

\* the cooldown window changed at runtime: two messages of one user with
\* one keyword, over a few minutes
WindowTraffic ==
    << Event(10, 1, Alice, << "c" >>, TRUE, { "m1" }),
       Event(10, 2, Alice, << "c" >>, TRUE, { "m1" }) >>

\* the texts sent to receive_cooldown: two valid windows and a rejected one
WindowInputs == { inp \in CooldownInputs : inp.text \in { << "1" >>, << " ", "5", " " >>, << "6", "1" >> } }

InitWindow == InitIngest(WindowTraffic)

NextWindow ==
    \/ \E h \in HandlerIds : Deliver(h)
    \/ \E h \in HandlerIds : Lookup(h, FALSE)
    \/ \E h \in HandlerIds : PublishAlert(h, FALSE)
    \/ \E inp \in WindowInputs : ReceiveCooldownMessage(inp)
    \/ \E d \in MinuteSteps : TickMinute(d)

SpecWindow == InitWindow /\ [][NextWindow]_vars

\* one text is rendered in a behaviour
InitRender == KwIdle /\ IngestIdle /\ DispatchIdle

NextRender ==
    \/ \E tpl \in TemplateTexts, use_emoji \in BOOLEAN, use_timestamp \in BOOLEAN :
          GenerateTextVariant(tpl, use_emoji, use_timestamp)
    \/ \E tpl \in TemplateTexts, use_emoji \in BOOLEAN, use_timestamp \in BOOLEAN :
          SendTextTemplate(tpl, use_emoji, use_timestamp)

SpecRender == InitRender /\ [][NextRender]_vars

InitFilter ==
    /\ KwIdle
    /\ DispatchIdle
    /\ nowMin = 0
    /\ processed = << >>
    /\ cooldown = << >>
    /\ cooldownTtl = DefaultSettings.cooldown_minutes
    /\ settings \in FilterSettings
    /\ blockedUsers = {}
    /\ blockedChats = {}
    /\ blUsers = << >>
    /\ blChats = << >>
    /\ filtered = 0
    /\ inbox = << >>
    /\ handlers = [ h \in {} |-> IdleHandler ]
    /\ alerts = << >>
    /\ records = << >>
    /\ spawned = << >>
    /\ dropped = {}

NextFilter == \E user \in FilterUsers : CheckUserFilterCall(user)

SpecFilter == InitFilter /\ [][NextFilter]_vars

\* probing runs over lists of no, one, a full batch, one more and MaxPool
\* identities
MaxPool == 21

PoolSizes == { 0, 1, BatchSize, BatchSize + 1, MaxPool }

InitProbes == KwIdle /\ IngestIdle /\ DispatchIdle

NextProbes ==
    \/ \E kind \in RunKinds, total \in PoolSizes : StartRun(kind, total)
    \/ \E p \in 1..MaxPool, ok \in BOOLEAN : ProbeEnd(p, ok)
    \/ NextBatch

SpecProbes == InitProbes /\ [][NextProbes]_vars

\* the pools get_available_accounts is called on: up to two accounts with
\* any status flags and any counter up to MaxSent, last counted on day 0
\* or never
MaxSent == 2

PoolStatuses == { "active", "restricted" }

PoolAccounts(phone) ==
    { [ phone |-> phone, status |-> st, can_send_dm |-> can, daily_sent |-> n,
        last_sent_date |-> d ] :
        st \in PoolStatuses, can \in BOOLEAN, n \in 0..MaxSent, d \in { NoDate, 0 } }

Pools ==
    { << a >> : a \in PoolAccounts("p1") }
        \cup { << a, b >> : a \in PoolAccounts("p1"), b \in PoolAccounts("p2") }

DailyLimits == { 1, 2 }

InitAvailable ==
    /\ KwIdle
    /\ IngestIdle
    /\ nowHour = StartHour
    /\ accounts \in { pool \in Pools :
                        \A i \in 1..Len(pool) :
                            pool[i].last_sent_date = NoDate => pool[i].daily_sent = 0 }
    /\ dmClients = [ p \in Phones |-> "none" ]
    /\ dmSettings = DefaultDmSettings
    /\ templates = {}
    /\ sentUsers = [ u \in UserIds |-> NoTime ]
    /\ dmRecords = << >>
    /\ tasks = [ t \in TaskIds |-> IdleTask ]
    /\ sendLog = << >>
    /\ cleared = 0

NextAvailable ==
    \/ \E limit \in DailyLimits : GetAvailableAccounts(limit)
    \/ \E d \in HourSteps : TickHour(d)

SpecAvailable == InitAvailable /\ [][NextAvailable]_vars

\* increment_sent_count on pools of one or two accounts that can send,
\* over three days
InitIncrement ==
    /\ InitAvailable
    /\ \A i \in 1..Len(accounts) :
          accounts[i].status = "active" /\ accounts[i].can_send_dm

NextIncrement ==
    \/ \E phone \in Phones : IncrementSent(phone)
    \/ \E d \in HourSteps : TickHour(d)

SpecIncrement == InitIncrement /\ [][NextIncrement]_vars

\* the status classifier on the replies of the gatekeeper
InitClassify ==
    /\ keywords = << >>
    /\ kwCall = NoCall
    /\ IngestIdle
    /\ DispatchIdle
    /\ reply \in Replies
    /\ verdict = NoVerdict
    /\ availCall = NoAvailCall
    /\ RestIdle

NextClassify == ClassifyReply

SpecClassify == InitClassify /\ [][NextClassify]_vars

\* STATUS_PATTERNS, lines 723-775: the lists in the order of the table, each
\* with the status of its category
PatternTable ==
    << [ patterns |-> GeoWarningPatterns, status |-> "active" ],
       [ patterns |-> ActivePatterns, status |-> "active" ],
       [ patterns |-> RestrictedPatterns, status |-> "restricted" ],
       [ patterns |-> SpamPatterns, status |-> "spam" ],
       [ patterns |-> BannedPatterns, status |-> "banned" ],
       [ patterns |-> FrozenPatterns, status |-> "frozen" ] >>

\* str.upper() on one character of the model
UpperChar(c) ==
    IF \E i \in 1..26 : LowerCase[i] = c
    THEN UpperCase[CHOOSE i \in 1..26 : LowerCase[i] = c]
    ELSE c

\* a phrase as it starts a sentence
UpperFirst(s) == IF s = << >> THEN s ELSE << UpperChar(s[1]) >> \o Tail(s)

\* the replies that consist of one pattern of the table alone, as listed
\* and with a capital first letter
PatternReplies ==
    UNION { { PatternTable[c].patterns[i], UpperFirst(PatternTable[c].patterns[i]) } :
              << c, i >> \in { x \in (1..Len(PatternTable)) \X (1..30) :
                                  x[2] <= Len(PatternTable[x[1]].patterns) } }

\* the status classifier on the patterns of its own table
InitPatterns ==
    /\ keywords = << >>
    /\ kwCall = NoCall
    /\ IngestIdle
    /\ DispatchIdle
    /\ reply \in PatternReplies
    /\ verdict = NoVerdict
    /\ availCall = NoAvailCall
    /\ RestIdle

SpecPatterns == InitPatterns /\ [][NextClassify]_vars

Spec == SpecIngest

----------------------------------------------------------------------------
(* Properties of KeywordManager.add_keywords (under SpecKeywords) *)

TooLong(raw) == Len(Strip(raw)) > MaxKeywordLen

\* the distinct keywords of a call that are neither empty, too long nor
\* already present
Fresh(call) ==
    { k \in { Strip(call.arg[i]) : i \in 1..Len(call.arg) } :
        k # << >> /\ Len(k) <= MaxKeywordLen /\ k \notin Range(call.pre) }

\* C10: after a call of add_keywords, no keyword of the call longer than 10
\* characters is in the list; everything that was in the list before is still
\* there in the same order; the valid new keywords of the call are all added;
\* the returned count is the number of keywords the list grew by.
C10_LongKeywordsRejected ==
    kwCall # NoCall =>
        /\ \A i \in 1..Len(kwCall.arg) :
               TooLong(kwCall.arg[i]) => Strip(kwCall.arg[i]) \notin Range(keywords)
        /\ \A k \in Range(keywords) : Len(k) <= MaxKeywordLen
        /\ SubSeq(keywords, 1, Len(kwCall.pre)) = kwCall.pre
        /\ Range(keywords) = Range(kwCall.pre) \cup Fresh(kwCall)
        /\ Len(keywords) = Len(kwCall.pre) + kwCall.ret
        /\ kwCall.ret = Cardinality(Fresh(kwCall))

\* a call that carried a keyword of 11 characters before a valid one, on a
\* list that already held a keyword: only the valid one was added
C10_Witness ==
    /\ kwCall # NoCall
    /\ kwCall.pre # << >>
    /\ Len(kwCall.arg) = 2
    /\ TooLong(kwCall.arg[1])
    /\ ~TooLong(kwCall.arg[2])
    /\ kwCall.ret = 1
    /\ keywords = Append(kwCall.pre, Strip(kwCall.arg[2]))

----------------------------------------------------------------------------
(* Properties of the account pool (under SpecPool) *)

\* C3: every account of the pool has can_send_dm true exactly when its
\* status is active.
C3_CanSendIffActive ==
    \A i \in 1..Len(accounts) :
        accounts[i].can_send_dm <=> (accounts[i].status = "active")

----------------------------------------------------------------------------
(* Properties of the dispatch scheduler (under SpecDispatch) *)

\* the triggers for the user of the i-th successful send that started after
\* it was recorded and within the reset window
LaterTriggers(i) ==
    { t \in TaskIds : /\ tasks[t].pc # "idle"
                      /\ tasks[t].user = sendLog[i].user
                      /\ tasks[t].seen >= i
                      /\ tasks[t].t0 - sendLog[i].at <= ResetHours }

NoAttempt(t) == tasks[t].pc = "done" /\ tasks[t].out \in Skips

\* a trigger is turned away by the sent registry only within the reset
\* window of a recorded send to its user
RegistrySkipsOnlyInWindow ==
    \A t \in TaskIds :
        tasks[t].out = "skip_sent" =>
            \E i \in 1..Len(sendLog) : t \in LaterTriggers(i)

C5_OneSendPerWindow ==
    \A i, j \in 1..Len(sendLog) :
        ( /\ i < j
          /\ sendLog[i].user = sendLog[j].user
          /\ sendLog[i].clears = sendLog[j].clears )
        => sendLog[j].at - sendLog[i].at > ResetHours

\* C6: the daily sent counter of an account whose sends all went to
\* different users never exceeds the daily limit.
C6_CounterWithinLimit ==
    \A i \in 1..Len(accounts) :
        ( \A x, y \in 1..Len(sendLog) :
            ( x # y /\ sendLog[x].phone = accounts[i].phone
                    /\ sendLog[y].phone = accounts[i].phone )
            => sendLog[x].user # sendLog[y].user )
        => accounts[i].daily_sent <= dmSettings.daily_limit

----------------------------------------------------------------------------
(* Properties of the ingestion pipeline (under SpecGates and SpecIngest) *)

\* what a handler has published, persisted and spawned
OutputsOf(h) ==
    { x \in Range(alerts) \cup Range(records) \cup Range(spawned) :
        x.mon = h[1] /\ x.ev = h[2] }

AlertsOf(h, k) ==
    Cardinality({ i \in 1..Len(alerts) :
        alerts[i].mon = h[1] /\ alerts[i].ev = h[2] /\ alerts[i].keyword = k })

RecordsOf(h, k) ==
    Cardinality({ i \in 1..Len(records) :
        records[i].mon = h[1] /\ records[i].ev = h[2] /\ records[i].keyword = k })

\* a handler that went through the gates after its lookups
PastLookup(h) ==
    handlers[h].pc \in { "alert", "done" }
        /\ handlers[h].gate \notin { "dedup", "empty", "notuser" }
        /\ ~(handlers[h].gate = "error" /\ handlers[h].matched = << >>)

TooLongText(ev) == Len(ev.text) > DefaultSettings.max_message_length
NoKeyword(ev) == \A i \in 1..Len(IngestKeywords) :
                    ~Contains(Lower(IngestKeywords[i]), Lower(ev.text))
FailsFilter(ev) == ev.sender.username = ""

\* C7: a handler that stopped at the blacklist gate, and every handler of a
\* message that is longer than max_message_length, contains no keyword or
\* whose sender has no username, has published no alert, persisted no record
\* and spawned no dispatch task, and never reaches the alert.
C7_GatedMessageHasNoOutput ==
    \A h \in HandlerIds :
        ( \/ handlers[h].gate \in { "blacklist", "length", "nomatch", "filter" }
          \/ TooLongText(inbox[h[2]])
          \/ NoKeyword(inbox[h[2]])
          \/ FailsFilter(inbox[h[2]]) )
        => OutputsOf(h) = {} /\ handlers[h].pc # "alert" /\ handlers[h].matched = << >>

\* one message stopped at each of the four gates without any output, the
\* one stopped for its length containing a keyword
C7_Witness ==
    /\ \A g \in { "blacklist", "length", "nomatch", "filter" } :
          \E h \in HandlerIds : handlers[h].pc = "done" /\ handlers[h].gate = g
                                  /\ OutputsOf(h) = {}
    /\ \E h \in HandlerIds :
          /\ handlers[h].gate = "length" /\ TooLongText(inbox[h[2]])
          /\ ~NoKeyword(inbox[h[2]])

\* the gate that dropped the message of a finished handler, from the message
\* and the label of the handler
StoppedAt(h) ==
    LET ev == inbox[h[2]]
        g  == handlers[h].gate
    IN  IF handlers[h].pc # "done" THEN "none"
        ELSE IF g \in { "dedup", "blacklist" } THEN g
        ELSE IF ~PastLookup(h) THEN "none"
        ELSE IF TooLongText(ev) THEN "length"
        ELSE IF NoKeyword(ev) THEN "nomatch"
        ELSE IF FailsFilter(ev) THEN "filter"
        ELSE "none"

\* C8: the filtered count is the number of messages dropped by the blacklist
\* gate, the length filter or the attribute filter: each of them added
\* exactly one, and the messages dropped by the dedup gate or for matching
\* no keyword added nothing.
C8_FilteredCount ==
    filtered = Cardinality({ h \in HandlerIds :
                   StoppedAt(h) \in { "blacklist", "length", "filter" } })

\* messages were dropped by the dedup gate, for matching no keyword and by
\* two of the counted gates, and the count is 2
C8_Witness ==
    /\ \E h \in HandlerIds : StoppedAt(h) = "dedup"
    /\ \E h \in HandlerIds : StoppedAt(h) = "nomatch"
    /\ \E h \in HandlerIds : StoppedAt(h) = "length"
    /\ \E h \in HandlerIds : StoppedAt(h) \in { "blacklist", "filter" }
    /\ filtered = 2

\* two handlers of events with the same (chat id, message id) that arrived
\* less than the dedup ttl apart
SameEventInWindow(h1, h2) ==
    /\ h1 # h2
    /\ MsgKey(inbox[h1[2]]) = MsgKey(inbox[h2[2]])
    /\ handlers[h1].pc # "idle"
    /\ handlers[h2].pc # "idle"
    /\ handlers[h1].t0 - handlers[h2].t0 < DedupTtl
    /\ handlers[h2].t0 - handlers[h1].t0 < DedupTtl

\* exactly one of the two was stopped by the dedup gate, with no output
OneIgnored(h1, h2) ==
    /\ (handlers[h1].gate = "dedup") # (handlers[h2].gate = "dedup")
    /\ \A h \in { h1, h2 } :
          handlers[h].gate = "dedup" => handlers[h].pc = "done" /\ OutputsOf(h) = {}

\* C1 as stated: of two events with the same (chat id, message id) that
\* arrive within the dedup window, only the first is processed; the second
\* stops at the dedup gate with no alert, no record and no dispatch task.
C1_SecondIgnored ==
    \A h1, h2 \in HandlerIds : SameEventInWindow(h1, h2) => OneIgnored(h1, h2)

\* C1, amended: the same, as long as the key of the event was not evicted
\* from the dedup cache for capacity.
C1_SecondIgnoredUnlessEvicted ==
    \A h1, h2 \in HandlerIds :
        ( SameEventInWindow(h1, h2)
          /\ [ cache |-> "dedup", key |-> MsgKey(inbox[h1[2]]) ] \notin dropped )
        => OneIgnored(h1, h2)

\* both monitoring identities received the message in the same minute: one
\* handler published an alert for it, the other stopped at the dedup gate
C1_Witness ==
    \E h1, h2 \in HandlerIds :
        /\ SameEventInWindow(h1, h2)
        /\ [ cache |-> "dedup", key |-> MsgKey(inbox[h1[2]]) ] \notin dropped
        /\ OutputsOf(h1) # {}
        /\ handlers[h2].gate = "dedup"

\* C2 as stated: two alerts for the same (user, keyword) pair are triggered
\* at least one cooldown window apart (the window in force when the earlier
\* one was triggered).
C2_OneAlertPerWindow ==
    \A i, j \in 1..Len(alerts) :
        ( /\ i # j
          /\ alerts[i].user = alerts[j].user
          /\ alerts[i].keyword = alerts[j].keyword
          /\ alerts[i].trig <= alerts[j].trig )
        => alerts[j].trig - alerts[i].trig >= alerts[i].ttl

\* C2, amended: the same, as long as the entry of the pair was not lost from
\* the cooldown cache: dropped when receive_cooldown re-created the cache,
\* or evicted for capacity.
C2_OneAlertPerWindowUnlessDropped ==
    \A i, j \in 1..Len(alerts) :
        ( /\ i # j
          /\ alerts[i].user = alerts[j].user
          /\ alerts[i].keyword = alerts[j].keyword
          /\ alerts[i].trig <= alerts[j].trig
          /\ [ cache |-> "cooldown",
               key |-> << alerts[i].user, alerts[i].keyword >> ] \notin dropped )
        => alerts[j].trig - alerts[i].trig >= alerts[i].ttl

\* a second message of the same user with the same keyword, delivered by
\* another monitoring identity inside the window, completed without an
\* alert for that keyword
C2_Witness ==
    \E i \in 1..Len(alerts), h \in HandlerIds :
        /\ h[1] # alerts[i].mon
        /\ h[2] # alerts[i].ev
        /\ inbox[h[2]].sender.id = alerts[i].user
        /\ handlers[h].gate = "completed"
        /\ alerts[i].keyword \in handlers[h].skipped
        /\ AlertsOf(h, alerts[i].keyword) = 0
        /\ handlers[h].t0 - alerts[i].trig < alerts[i].ttl
        /\ [ cache |-> "cooldown",
             key |-> << alerts[i].user, alerts[i].keyword >> ] \notin dropped

\* C9: when a handler has left the cooldown loop, every matched keyword
\* that was in cooldown has no alert and no record of this handler, and
\* every other matched keyword has exactly one alert and one record.
C9_EachFreeKeywordAlerted ==
    \A h \in HandlerIds :
        ( handlers[h].pc = "done" /\ handlers[h].matched # << >> ) =>
            \A k \in Range(handlers[h].matched) :
                IF k \in handlers[h].skipped
                THEN AlertsOf(h, k) = 0 /\ RecordsOf(h, k) = 0
                ELSE AlertsOf(h, k) = 1 /\ RecordsOf(h, k) = 1

----------------------------------------------------------------------------
(* Properties of the status classifier (under SpecClassify) *)

\* the statuses of the categories one of whose patterns is contained in the
\* normalised reply
HitGeo == AnyPatternIn(GeoWarningPatterns, TranslateText(reply))
HitActive == AnyPatternIn(ActivePatterns, TranslateText(reply))
HitRestricted == AnyPatternIn(RestrictedPatterns, TranslateText(reply))
HitSpam == AnyPatternIn(SpamPatterns, TranslateText(reply))
HitBanned == AnyPatternIn(BannedPatterns, TranslateText(reply))
HitFrozen == AnyPatternIn(FrozenPatterns, TranslateText(reply))

\* C11: the status returned for a reply is active when a geo-notice or an
\* active pattern is contained in it; otherwise restricted when a restricted
\* pattern is contained; otherwise spam, then banned, then frozen in the
\* same way; and unknown when no pattern is contained.
C11_FirstCategoryWins ==
    verdict # NoVerdict =>
        /\ (HitGeo \/ HitActive) => verdict[1] = "active"
        /\ (~HitGeo /\ ~HitActive /\ HitRestricted) => verdict[1] = "restricted"
        /\ (~HitGeo /\ ~HitActive /\ ~HitRestricted /\ HitSpam) => verdict[1] = "spam"
        /\ (~HitGeo /\ ~HitActive /\ ~HitRestricted /\ ~HitSpam /\ HitBanned)
              => verdict[1] = "banned"
        /\ (~HitGeo /\ ~HitActive /\ ~HitRestricted /\ ~HitSpam /\ ~HitBanned
              /\ HitFrozen) => verdict[1] = "frozen"
        /\ (~HitGeo /\ ~HitActive /\ ~HitRestricted /\ ~HitSpam /\ ~HitBanned
              /\ ~HitFrozen) => verdict[1] = "unknown"

\* a reply with a geo-notice and a banned phrase and nothing of the active
\* category was classified active
C11_Witness ==
    /\ HitGeo
    /\ HitBanned
    /\ ~HitActive
    /\ verdict = << "active", TRUE >>

----------------------------------------------------------------------------
(* Properties of get_available_accounts (under SpecAvailable) *)

\* the sent count of an account for the day `today`
TodayCount(a, today) == IF a.last_sent_date = today THEN a.daily_sent ELSE 0

\* the call was made today and a day has passed since some account of the
\* pool was last counted
FreshCall == availCall # NoAvailCall /\ availCall.today = DayOf(nowHour)

\* C12: the list a call returns holds, in pool order, exactly the accounts
\* that had status active, can_send_dm true and a sent count for the day of
\* the call below the limit.
C12_AvailableExactly ==
    availCall # NoAvailCall =>
        LET chosen == SelectSeq(availCall.pre,
                         LAMBDA a : /\ a.status = "active"
                                    /\ a.can_send_dm
                                    /\ TodayCount(a, availCall.today) < availCall.limit)
        IN  /\ Len(availCall.ret) = Len(chosen)
            /\ \A i \in 1..Len(chosen) :
                  /\ availCall.ret[i].phone = chosen[i].phone
                  /\ availCall.ret[i].status = "active"
                  /\ availCall.ret[i].can_send_dm
                  /\ availCall.ret[i].daily_sent = TodayCount(chosen[i], availCall.today)

\* a call on a later day than the last count, on a pool of an active
\* account whose stale counter is at the limit or above and an active
\* account with can_send_dm false, returned the first one only, with its
\* counter at 0
C12_Witness ==
    /\ availCall # NoAvailCall
    /\ Len(availCall.pre) = 2
    /\ availCall.pre[1].status = "active" /\ availCall.pre[1].can_send_dm
    /\ availCall.pre[1].daily_sent >= availCall.limit
    /\ availCall.pre[1].last_sent_date # availCall.today
    /\ availCall.pre[2].status = "active" /\ ~availCall.pre[2].can_send_dm
    /\ Len(availCall.ret) = 1
    /\ availCall.ret[1].phone = "p1"
    /\ availCall.ret[1].daily_sent = 0

\* C13 as stated: after a call, every account of the pool that was last
\* counted on another day has its counter at 0 and its date set to the day
\* of the call, whatever its status.
C13_ResetForAll ==
    FreshCall =>
        \A i \in 1..Len(accounts) :
            availCall.pre[i].last_sent_date # availCall.today =>
                accounts[i].daily_sent = 0 /\ accounts[i].last_sent_date = availCall.today

\* C13, amended: after a call, every account with status active and
\* can_send_dm true that was last counted on another day has its counter at
\* 0 and its date set to the day of the call; every other account is as it
\* was before the call.
C13_ResetForUsable ==
    FreshCall =>
        \A i \in 1..Len(accounts) :
            IF /\ availCall.pre[i].status = "active"
               /\ availCall.pre[i].can_send_dm
               /\ availCall.pre[i].last_sent_date # availCall.today
            THEN accounts[i] = [ availCall.pre[i] EXCEPT !.daily_sent = 0,
                                                       !.last_sent_date = availCall.today ]
            ELSE accounts[i] = availCall.pre[i]

\* a call on a later day than the last count reset a usable account with a
\* counter above 0 and left an unusable one alone
C13_Witness ==
    /\ FreshCall
    /\ availCall.today > 0
    /\ \E i, j \in 1..Len(accounts) :
          /\ availCall.pre[i].status = "active" /\ availCall.pre[i].can_send_dm
          /\ availCall.pre[i].daily_sent > 0
          /\ accounts[i].daily_sent = 0
          /\ accounts[i].last_sent_date = availCall.today
          /\ availCall.pre[j].status # "active"
          /\ availCall.pre[j].daily_sent > 0
          /\ accounts[j] = availCall.pre[j]

----------------------------------------------------------------------------
(* Properties of one dispatch attempt (under SpecAttempt) *)

\* the conditions of the eligibility check, on the state the check reads
EligibleFor(user_id, username) ==
    /\ dmSettings.enabled
    /\ username # ""
    /\ ~(sentUsers[user_id] # NoTime /\ nowHour - sentUsers[user_id] <= ResetHours)
    /\ dmSettings.active_hours_start <= nowHour % 24
    /\ nowHour % 24 < dmSettings.active_hours_end
    /\ \E i \in 1..Len(accounts) :
          /\ accounts[i].status = "active"
          /\ accounts[i].can_send_dm
          /\ TodayCount(accounts[i], DayOf(nowHour)) < dmSettings.daily_limit
    /\ templates # {}

\* C14: an attempt goes on to its delay (and so to a send) only when, at
\* its eligibility check, the feature was enabled, the sender had a
\* username and was not in the registry within the window, the hour was
\* within the active hours, an identity was eligible and a template
\* existed; an attempt that fails a check ends there, with no send and no
\* record, and never runs again.
C14_SendOnlyIfEligible ==
    [][ \A t \in TaskIds :
          /\ (tasks[t].pc = "idle" /\ tasks'[t].pc # "idle" /\ tasks'[t].out \notin Skips)
                => /\ tasks'[t].pc = "delay"
                   /\ EligibleFor(tasks'[t].user, tasks'[t].username)
          /\ (tasks[t].pc = "idle" /\ tasks'[t].out \in Skips)
                => /\ tasks'[t].pc = "done"
                   /\ sendLog' = sendLog
                   /\ dmRecords' = dmRecords
          /\ tasks[t].out \in Skips => tasks'[t] = tasks[t]
          /\ tasks'[t].pc \in { "sending" } => tasks[t].pc \in { "delay", "sending" }
          /\ (tasks'[t].out = "sent" /\ tasks[t].out # "sent") => tasks[t].pc = "sending"
      ]_vars

\* one attempt was stopped by a check and another went through to a send
C14_Witness ==
    \E t, k \in TaskIds :
        /\ tasks[t].out \in Skips
        /\ tasks[k].out = "sent"
        /\ \E i \in 1..Len(sendLog) : sendLog[i].task = k
        /\ \A i \in 1..Len(sendLog) : sendLog[i].task # t

\* the counter of the identity `phone` for the day `today`
CounterOf(accs, phone, today) ==
    TodayCount(accs[IndexOf(accs, phone)], today)

C16_EveryAttemptRecorded ==
    \A t \in TaskIds :
        (tasks[t].pc = "done" /\ tasks[t].out \notin Skips) =>
            /\ tasks[t].out \in { "sent", "failed" }
            /\ \E i \in 1..Len(dmRecords) :
                  /\ dmRecords[i].user = tasks[t].user
                  /\ dmRecords[i].phone = tasks[t].phone
                  /\ dmRecords[i].tpl = tasks[t].tpl
                  /\ dmRecords[i].status = IF tasks[t].out = "sent" THEN "success"
                                           ELSE "failed"

----------------------------------------------------------------------------
(* Isolation of failures (under SpecIsolation) *)

\* the handler h ends with an exception in this step
Fails(h) == handlers[h].gate # "error" /\ handlers'[h].gate = "error"

\* the dispatch task t ends without a send in this step
TaskFails(t) == tasks[t].pc \in { "delay", "sending" } /\ tasks'[t].pc = "done"
                    /\ tasks'[t].out # "sent"

\* the handler or task can take its next step without an exception
CanGoOn ==
    /\ \A h \in HandlerIds :
          /\ handlers[h].pc = "lookup" => ENABLED Lookup(h, FALSE)
          /\ handlers[h].pc = "alert" => ENABLED PublishAlert(h, FALSE)
    /\ \A t \in TaskIds :
          /\ tasks[t].pc = "delay" => ENABLED DmWake(t, "ok")
          /\ tasks[t].pc = "sending" => ENABLED DmFinish(t, TRUE, TRUE)

\* a handler that ran to its end without an exception of its own has
\* published an alert for every matched keyword it did not find in cooldown
RanNormally ==
    \A h \in HandlerIds :
        (handlers[h].pc = "done" /\ handlers[h].gate = "completed") =>
            \A i \in 1..Len(handlers[h].matched) :
                handlers[h].matched[i] \notin handlers[h].skipped =>
                    \E a \in 1..Len(alerts) :
                        /\ alerts[a].mon = h[1]
                        /\ alerts[a].ev = h[2]
                        /\ alerts[a].keyword = handlers[h].matched[i]

\* C17: an exception in the sender lookup or in the alert sink ends the
\* handler it was raised in and nothing else, and a failed send ends its
\* dispatch task and no other: every other handler and task, of the same
\* and of the other monitoring identities, is left as it was, can take its
\* next step, and a handler that meets no exception of its own publishes
\* its alerts.
C17_FailuresAreIsolated ==
    /\ [](CanGoOn /\ RanNormally)
    /\ [][ /\ \A h \in HandlerIds :
                Fails(h) =>
                    /\ \A x \in HandlerIds \ { h } : handlers'[x] = handlers[x]
                    /\ UNCHANGED << nowMin, processed, cooldown, cooldownTtl, settings,
                                    blockedUsers, blockedChats, blUsers, blChats, filtered, inbox, alerts,
                                    records, spawned, dropped >>
                    /\ UNCHANGED << kwVars, dispatchVars >>
           /\ \A t \in TaskIds :
                TaskFails(t) =>
                    /\ \A x \in TaskIds \ { t } : tasks'[x] = tasks[x]
                    /\ UNCHANGED << accounts, dmClients, dmSettings, templates, sentUsers,
                                    sendLog >>
                    /\ UNCHANGED << kwVars, ingestVars >>
       ]_vars

\* the lookup of one event and the alert of another failed, a send failed,
\* and after them an event of the same monitoring identity and one of the
\* other were alerted and a dispatch succeeded
C17_Witness ==
    /\ handlers[<< "m1", 1 >>].gate = "error"
    /\ handlers[<< "m1", 2 >>].gate = "completed"
    /\ handlers[<< "m1", 2 >>].t0 >= handlers[<< "m1", 1 >>].t0
    /\ handlers[<< "m2", 3 >>].gate = "completed"
    /\ \E a, b \in 1..Len(alerts) : alerts[a].ev = 2 /\ alerts[b].ev = 3
    /\ tasks[1].out = "failed"
    /\ tasks[2].out = "sent"

----------------------------------------------------------------------------
(* Properties of the blacklist (under SpecBlacklist) *)

\* the ids of a list
Ids(list) == { list[i] : i \in 1..Len(list) }

\* C19: the lookup sets hold exactly the ids of the two lists, and no list
\* holds an id twice.
C19_ListsAndLookupsAgree ==
    /\ blockedUsers = Ids(blUsers)
    /\ blockedChats = Ids(blChats)
    /\ \A i, j \in 1..Len(blUsers) : blUsers[i] = blUsers[j] => i = j
    /\ \A i, j \in 1..Len(blChats) : blChats[i] = blChats[j] => i = j

\* after additions (and possibly removals) two users are on their list,
\* the later id first, and one chat is on its list
C19_Witness ==
    /\ blUsers = << 102, 101 >>
    /\ blockedUsers = { 101, 102 }
    /\ blChats = << 20 >>
    /\ blockedChats = { 20 }

----------------------------------------------------------------------------
(* Properties of the sent registry (under SpecRegistry) *)

\* the registry was asked about a user; the call is recorded with the time
\* of the last send to the user before it (last) and whether no clear came
\* after that send (kept)
Asked == sentLog.call.at # NoTime

\* the registry was cleared after the last send to u
ClearedSince(u) == sentLog.clears[u] < cleared

----------------------------------------------------------------------------
(* Properties of the template store (under SpecTemplates) *)

\* C20 as stated: the ids add_template returned start at 1 and each is
\* greater than every one before it, no two stored templates share an id,
\* and the id of a template a dispatch record was written for denotes that
\* template only.
C20_IdsMonotonicAndUnique ==
    /\ issued # << >> => issued[1] = 1
    /\ \A i, j \in 1..Len(issued) : i < j => issued[i] < issued[j]
    /\ \A i, j \in 1..Len(tplList) : tplList[i].id = tplList[j].id => i = j
    /\ \A r \in tplUsed :
          /\ \A q \in tplUsed : q.id = r.id => q.made = r.made
          /\ \A i \in 1..Len(tplList) : tplList[i].id = r.id => tplList[i].made = r.made

----------------------------------------------------------------------------
(* Properties of the two record logs (under SpecRecords) *)

\* the log the last add_record call wrote to
LogAfter == IF lastCall.log = "trigger" THEN records ELSE dmRecords

\* C21: after add_record the log holds at most 10,000 records, the record
\* just added is last, the records before it are the newest records of the
\* log as it was, in their order, and none is missing unless the log was
\* full, in which case exactly the oldest one is.
C21_LogAppendOnlyAndCapped ==
    lastCall.op = "add_record" =>
        LET pre  == lastCall.pre
            post == LogAfter
            kept == Len(post) - 1
            gone == Len(pre) - kept
        IN  /\ Len(post) <= 10000
            /\ Len(post) >= 1
            /\ post[Len(post)] = lastCall.rec
            /\ gone = (IF Len(pre) + 1 > 10000 THEN Len(pre) + 1 - 10000 ELSE 0)
            /\ \A i \in 1..kept : post[i] = pre[gone + i]

\* a record was added to a full log: the log is still full, the new record
\* is last and the second oldest record is now first
C21_Witness ==
    /\ lastCall.op = "add_record"
    /\ Len(lastCall.pre) = 10000
    /\ Len(LogAfter) = 10000
    /\ LogAfter[10000] = lastCall.rec
    /\ LogAfter[1] = lastCall.pre[2]
    /\ lastCall.n >= 2

----------------------------------------------------------------------------
(* Properties of the configuration handlers (under SpecConfig) *)

\* the value of the last message is not an integer within lo..hi
NotWithin(lo, hi) ==
    lastCall.inp.means.kind # "int" \/ lastCall.inp.means.a < lo \/ lastCall.inp.means.a > hi

\* the last message is out of range or malformed for the handler it went to
Rejectable ==
    LET m == lastCall.inp.means
    IN  CASE lastCall.op = "receive_cooldown" -> NotWithin(1, 60)
          [] lastCall.op = "receive_max_length" -> NotWithin(10, 1000)
          [] lastCall.op = "receive_min_age" -> NotWithin(0, 365)
          [] lastCall.op = "receive_daily_limit_config" -> NotWithin(1, 200)
          [] lastCall.op = "receive_delay_config" ->
                m.kind # "pair" \/ m.a < 10 \/ m.b > 600 \/ m.a >= m.b
          [] lastCall.op = "receive_active_hours_config" ->
                m.kind # "pair" \/ m.a < 0 \/ m.a > 23 \/ m.b < 0 \/ m.b > 23 \/ m.a >= m.b
          [] OTHER -> FALSE

\* C22: after a configuration message with an out-of-range or malformed
\* value the filter settings and the dispatch settings are what they were
\* and the cooldown cache is untouched; after any message to the delay or
\* the active-hours handler the two fields are either both as before or
\* both the two values of the message.
C22_InvalidValueRejected ==
    lastCall.op # "none" =>
        /\ Rejectable =>
              /\ settings = lastCall.pre.settings
              /\ dmSettings = lastCall.pre.dmSettings
              /\ cooldown = lastCall.pre.cooldown
              /\ cooldownTtl = lastCall.pre.cooldownTtl
        /\ \/ /\ dmSettings.delay_min = lastCall.pre.dmSettings.delay_min
              /\ dmSettings.delay_max = lastCall.pre.dmSettings.delay_max
           \/ /\ lastCall.op = "receive_delay_config"
              /\ dmSettings.delay_min = lastCall.inp.means.a
              /\ dmSettings.delay_max = lastCall.inp.means.b
        /\ \/ /\ dmSettings.active_hours_start = lastCall.pre.dmSettings.active_hours_start
              /\ dmSettings.active_hours_end = lastCall.pre.dmSettings.active_hours_end
           \/ /\ lastCall.op = "receive_active_hours_config"
              /\ dmSettings.active_hours_start = lastCall.inp.means.a
              /\ dmSettings.active_hours_end = lastCall.inp.means.b

\* with a pair in cooldown and a changed length limit, a cooldown of 61
\* minutes was sent and nothing changed
C22_Witness ==
    /\ lastCall.op = "receive_cooldown"
    /\ lastCall.inp.means.a = 61
    /\ cooldown # << >>
    /\ settings.max_message_length = 10
    /\ settings = lastCall.pre.settings
    /\ cooldown = lastCall.pre.cooldown

----------------------------------------------------------------------------
(* Properties of the cooldown window (under SpecWindow) *)

\* this step is a receive_cooldown message with a value in 1..60
ValidCooldownStep ==
    /\ lastCall' # lastCall
    /\ lastCall'.op = "receive_cooldown"
    /\ lastCall'.inp.means.kind = "int"
    /\ 1 <= lastCall'.inp.means.a
    /\ lastCall'.inp.means.a <= 60

\* the pair of the entry is in cooldown for the pipeline
InCooldown(e) == NextFree(<< e.key[2] >>, [ id |-> e.key[1] ], 1) = 0

\* C23: a valid receive_cooldown leaves the cooldown cache empty, so that
\* no pair is in cooldown, and makes the new value the window of the cache
\* and of the settings; every entry of the cache, set since, is in
\* cooldown exactly until the window in force has passed since it was set.
C23_WindowReconfigured ==
    /\ [][ ValidCooldownStep =>
              /\ cooldown' = << >>
              /\ cooldownTtl' = lastCall'.inp.means.a
              /\ settings'.cooldown_minutes = lastCall'.inp.means.a ]_vars
    /\ [](\A i \in 1..Len(cooldown) :
              InCooldown(cooldown[i])
                  = (nowMin - cooldown[i].at < settings.cooldown_minutes))

\* the window was set to 1 minute while a pair was in cooldown; the pair
\* was alerted again, and its new entry has expired after 3 minutes, which
\* is less than the window before
C23_Witness ==
    /\ lastCall.op = "receive_cooldown"
    /\ lastCall.inp.means.a = 1
    /\ lastCall.pre.cooldown # << >>
    /\ lastCall.pre.cooldownTtl = 5
    /\ settings.cooldown_minutes = 1
    /\ Len(alerts) >= 2
    /\ \E i \in 1..Len(cooldown) :
          /\ ~InCooldown(cooldown[i])
          /\ nowMin - cooldown[i].at = 3

----------------------------------------------------------------------------
(* Properties of the batched probing (under SpecProbes) *)

InFlight == { p \in 1..probes.total : probes.pos[p] = "flying" }

Ended == { p \in 1..probes.total : probes.pos[p] \in { "ok", "failed" } }

\* the batch of the p-th identity of the list, counted from 0
BatchNo(p) == (p - 1) \div 10

\* C24: in a run at most 10 probes are in flight; a probe of a later batch
\* has started only when every probe of the batches before has ended; no
\* identity is probed twice, and when the run is over every identity of
\* the list has been probed once and has ended.
C24_ProbesInBatches ==
    /\ Cardinality(InFlight) <= 10
    /\ \A p \in InFlight \cup Ended :
          \A q \in 1..probes.total : BatchNo(q) < BatchNo(p) => q \in Ended
    /\ \A p \in 1..probes.total :
          /\ probes.starts[p] <= 1
          /\ probes.starts[p] = 1 <=> p \in InFlight \cup Ended
    /\ probes.finished =>
          \A p \in 1..probes.total : probes.starts[p] = 1 /\ p \in Ended

\* a run over 21 identities is in its third batch: the first two batches
\* of 10 have ended, one of their probes failed, the last probe is in
\* flight
C24_Witness ==
    /\ probes.total = 21
    /\ InFlight = { 21 }
    /\ Cardinality(Ended) = 20
    /\ \E p \in 1..10 : probes.pos[p] = "failed"

\* a run over 11 identities is over
C24_WitnessFinished ==
    /\ probes.total = 11
    /\ probes.finished
    /\ probes.i = 10

----------------------------------------------------------------------------
(* Properties of the rendering of a text template (under SpecRender) *)

Rendered == lastCall.op \in { "generate_text_variant", "send_text" }

\* the number of "{" less the number of "}" among the first i characters
Depth(text, i) ==
    Cardinality({ k \in 1..i : text[k] = "{" })
        - Cardinality({ k \in 1..i : text[k] = "}" })

\* every "{" is closed before the next one opens and every "}" closes one
NonNested(text) ==
    /\ \A i \in 1..Len(text) : Depth(text, i) \in { 0, 1 }
    /\ Depth(text, Len(text)) = 0

\* the spans of a text: a "{" and the next "}", with something in between
\* and no brace
SpansOf(text) ==
    { s \in (1..Len(text)) \X (1..Len(text)) :
        /\ text[s[1]] = "{"
        /\ text[s[2]] = "}"
        /\ s[2] > s[1] + 1
        /\ \A k \in (s[1] + 1)..(s[2] - 1) : text[k] \notin { "{", "}" } }

\* the alternatives of a span: what stands between two neighbours among
\* its braces and bars
AlternativesOf(text, s) ==
    LET seps == { s[1], s[2] } \cup { k \in s[1]..s[2] : text[k] = "|" }
    IN  { SubSeq(text, p[1] + 1, p[2] - 1) :
            p \in { q \in seps \X seps :
                      /\ q[1] < q[2]
                      /\ \A k \in seps : ~(q[1] < k /\ k < q[2]) } }

\* the text with each of the spans replaced by the text chosen for it
RECURSIVE Fill(_, _, _)
Fill(text, spans, chosen) ==
    IF spans = {} THEN text
    ELSE LET s == CHOOSE x \in spans : \A y \in spans : y[1] <= x[1]
         IN  Fill(SubSeq(text, 1, s[1] - 1) \o chosen[s]
                      \o SubSeq(text, s[2] + 1, Len(text)),
                  spans \ { s }, chosen)

\* every way to replace each span by one of its own alternatives
Replacements(text) ==
    { Fill(text, SpansOf(text), chosen) :
        chosen \in { f \in [ SpansOf(text) ->
                                UNION { AlternativesOf(text, s) : s \in SpansOf(text) } ] :
                        \A s \in SpansOf(text) : f[s] \in AlternativesOf(text, s) } }

\* C25: with the emoji and the padding switched off the rendering of a
\* text "{a|b}" is a or b; the substitution of a text whose spans do not
\* nest replaces every span by one of its own alternatives and leaves the
\* rest of the text as it is, and every combination of alternatives is a
\* possible result; for the text rendered the results are those of re.sub.
C25_SpansReplaced ==
    Rendered =>
          LET text == lastCall.tpl.text
          IN  /\ ProcessSpintax(text) = lastCall.tpl.outs
              /\ NonNested(text) => ProcessSpintax(text) = Replacements(text)
              /\ NonNested(text) => lastCall.sub \in Replacements(text)
              /\ ~lastCall.use_emoji /\ ~lastCall.use_timestamp =>
                    /\ lastCall.result = lastCall.sub
                    /\ \A k \in 2..(Len(text) - 1) :
                          ( /\ text[1] = "{"
                            /\ text[Len(text)] = "}"
                            /\ text[k] = "|"
                            /\ \A j \in 2..(Len(text) - 1) :
                                  j # k => text[j] \notin { "{", "}", "|" } )
                          => lastCall.result \in { SubSeq(text, 2, k - 1),
                                                   SubSeq(text, k + 1, Len(text) - 1) }

\* a text with two spans was rendered plainly, with the second alternative
\* of the first span and the first of the second
C25_Witness ==
    /\ lastCall.op = "send_text"
    /\ ~lastCall.use_emoji
    /\ ~lastCall.use_timestamp
    /\ lastCall.tpl.text = << "x", "{", "a", "|", "b", "}", "y", "{", "c", "|", "d", "}" >>
    /\ lastCall.result = << "x", "b", "y", "c" >>

\* a text "{a|b}" was rendered plainly as b
C25_WitnessSingle ==
    /\ lastCall.op = "generate_text_variant"
    /\ ~lastCall.use_emoji
    /\ ~lastCall.use_timestamp
    /\ lastCall.tpl.text = << "{", "a", "|", "b", "}" >>
    /\ lastCall.result = << "b" >>

\* C26: with the padding switched on the rendered text is the decorated
\* text, unchanged, followed by 6 to 10 zero width characters; the
\* decorated text is a result of the substitution, followed by a blank and
\* an emoji when the emoji is switched on; the mentions are converted in
\* the rendered text, after which the padding still ends the text and no
\* zero width character stands anywhere else.
C26_PaddingAfterDecoration ==
    /\ \A s \in LinkSamples : ConvertMentions(s.text) = s.html
    /\ Rendered =>
          LET sub == lastCall.sub
              decorated == lastCall.decorated
              result == lastCall.result
              sent == lastCall.sent
              grow == Len(result) - Len(decorated)
              Invisible == { "U+200B", "U+200C", "U+200D", "U+2060" }
          IN  /\ sub \in lastCall.tpl.outs
              /\ IF lastCall.use_emoji
                 THEN \E e \in Emojis : decorated = sub \o << " ", e >>
                 ELSE decorated = sub
              /\ SubSeq(result, 1, Len(decorated)) = decorated
              /\ IF lastCall.use_timestamp
                 THEN /\ 6 <= grow /\ grow <= 10
                      /\ \A k \in (Len(decorated) + 1)..Len(result) :
                            result[k] \in Invisible
                 ELSE grow = 0
              /\ sent = IF lastCall.op = "send_text" THEN ConvertMentions(result)
                        ELSE result
              /\ Len(sent) >= grow
              /\ \A k \in 1..Len(sent) :
                    sent[k] \in Invisible <=> k > Len(sent) - grow
              /\ SubSeq(sent, Len(sent) - grow + 1, Len(sent))
                    = SubSeq(result, Len(decorated) + 1, Len(result))

\* a mention chosen by the substitution was sent with an emoji and ten
\* zero width characters of all four kinds: the link of the mention comes
\* first and the padding last
C26_Witness ==
    /\ lastCall.op = "send_text"
    /\ lastCall.use_emoji
    /\ lastCall.use_timestamp
    /\ lastCall.sub = << "@", "b" >>
    /\ Len(lastCall.result) = Len(lastCall.decorated) + 10
    /\ { lastCall.result[k] : k \in 5..14 } = { "U+200B", "U+200C", "U+200D", "U+2060" }
    /\ SubSeq(lastCall.sent, 1, Len(LinkHead)) = LinkHead
    /\ lastCall.sent[Len(lastCall.sent)] = lastCall.result[14]

----------------------------------------------------------------------------
(* Properties of increment_sent_count (under SpecIncrement) *)

\* C27: after increment_sent_count(phone) the account of that phone has
\* the date of the call; its counter is 1 when its date was another one
\* and one more than before otherwise; its other fields and every other
\* account are as before, and so is the order of the accounts.
C27_IncrementResetsFirst ==
    lastCall.op = "increment_sent_count" =>
        /\ Len(accounts) = Len(lastCall.pre)
        /\ \A i \in 1..Len(accounts) :
              IF lastCall.pre[i].phone = lastCall.phone
              THEN /\ accounts[i].last_sent_date = lastCall.today
                   /\ accounts[i].daily_sent =
                        IF lastCall.pre[i].last_sent_date # lastCall.today THEN 1
                        ELSE lastCall.pre[i].daily_sent + 1
                   /\ accounts[i].phone = lastCall.pre[i].phone
                   /\ accounts[i].status = lastCall.pre[i].status
                   /\ accounts[i].can_send_dm = lastCall.pre[i].can_send_dm
              ELSE accounts[i] = lastCall.pre[i]

\* the second account had sent twice the day before: its counter is 1 and
\* its date the day of the call, and the first account, with a counter
\* of the day before too, is as it was
C27_Witness ==
    /\ lastCall.op = "increment_sent_count"
    /\ lastCall.phone = "p2"
    /\ lastCall.today = 1
    /\ Len(accounts) = 2
    /\ lastCall.pre[2].daily_sent = 2
    /\ lastCall.pre[2].last_sent_date = 0
    /\ accounts[2].daily_sent = 1
    /\ accounts[1].daily_sent = 2
    /\ accounts[1].last_sent_date = 0

----------------------------------------------------------------------------
(* The connection after the delay and the failed send (under SpecAttempt) *)

\* C28: a send is started only by an attempt that was in its delay, and
\* through an identity that is connected with an authorized session; an
\* attempt that finds its identity disconnected after the delay goes on to
\* the send when the reconnect gave such a connection, and ends otherwise,
\* with no send, no record and no change of the registry or the pool; an
\* attempt that has ended does not run again.
C28_SendOnlyConnectedAuthorized ==
    [][ \A t \in TaskIds :
          /\ (tasks[t].pc # "sending" /\ tasks'[t].pc = "sending")
                => /\ tasks[t].pc = "delay"
                   /\ dmClients'[tasks'[t].phone] = "up"
          /\ ( /\ tasks[t].pc = "delay"
               /\ tasks'[t] # tasks[t]
               /\ dmClients[tasks[t].phone] \notin { "up", "unauth" } )
                => \/ tasks'[t].pc = "sending"
                   \/ /\ tasks'[t].pc = "done"
                      /\ tasks'[t].out \in { "abort_unauthorized", "abort_reconnect" }
                      /\ UNCHANGED << sendLog, dmRecords, sentUsers, accounts >>
          /\ tasks[t].pc = "done" => tasks'[t] = tasks[t]
      ]_vars

\* C29: a send that fails ends the attempt with one record of status
\* failed for its user, identity and template added to the dispatch log;
\* the registry, the accounts (counter, date, status, can_send_dm), the
\* clients and the log of sends are as before, and the attempt does not
\* run again.
C29_FailedSendOnlyRecorded ==
    [][ \A t \in TaskIds :
          /\ (tasks[t].pc = "sending" /\ tasks'[t].out = "failed")
                => /\ tasks'[t].pc = "done"
                   /\ Len(dmRecords') = Len(dmRecords) + 1
                   /\ SubSeq(dmRecords', 1, Len(dmRecords)) = dmRecords
                   /\ dmRecords'[Len(dmRecords')].status = "failed"
                   /\ dmRecords'[Len(dmRecords')].user = tasks[t].user
                   /\ dmRecords'[Len(dmRecords')].phone = tasks[t].phone
                   /\ dmRecords'[Len(dmRecords')].tpl = tasks[t].tpl
                   /\ sentUsers' = sentUsers
                   /\ accounts' = accounts
                   /\ dmClients' = dmClients
                   /\ sendLog' = sendLog
          /\ tasks[t].out = "failed" => tasks'[t] = tasks[t]
      ]_vars

\* two attempts chose the same identity; one sent, the send of the other
\* failed: the log has a record of each, the counter of the identity is 1
\* and the user of the failed send is not in the registry
C29_Witness ==
    \E t, k \in TaskIds :
        /\ tasks[t].out = "failed"
        /\ tasks[k].out = "sent"
        /\ tasks[t].phone = tasks[k].phone
        /\ Len(dmRecords) = 2
        /\ dmRecords[2].status = "failed"
        /\ dmRecords[2].user = tasks[t].user
        /\ sentUsers[tasks[t].user] = NoTime
        /\ sentUsers[tasks[k].user] # NoTime
        /\ accounts[1].daily_sent = 1
        /\ Len(sendLog) = 1

----------------------------------------------------------------------------
(* Properties of check_user_filter (under SpecFilter) *)

\* C30: check_user_filter rejects for the missing username when that
\* filter is on and the sender has no username; otherwise for the missing
\* avatar when that filter is on and the sender has no photo; otherwise,
\* when the minimum age is above 0, for the age when the age estimated
\* from the id (1825 days below 10^9, 730 below 2 * 10^9, 180 below
\* 5 * 10^9, 30 from there on) is below the minimum; otherwise it accepts.
C30_FirstFailingRuleDecides ==
    lastCall.op = "check_user_filter" =>
        LET st == lastCall.settings
            u == lastCall.user
            age == IF u.id.giga < 1 THEN 1825
                   ELSE IF u.id.giga < 2 THEN 730
                   ELSE IF u.id.giga < 5 THEN 180
                   ELSE 30
        IN  lastCall.ret =
                IF st.filter_no_username /\ u.username = ""
                THEN [ ok |-> FALSE, reason |-> "no_username" ]
                ELSE IF st.filter_no_avatar /\ ~u.photo
                THEN [ ok |-> FALSE, reason |-> "no_avatar" ]
                ELSE IF st.min_account_age_days > 0 /\ age < st.min_account_age_days
                THEN [ ok |-> FALSE, reason |-> "age" ]
                ELSE [ ok |-> TRUE, reason |-> "" ]

\* with both filters on and a minimum age of 31 days a sender with
\* neither username nor photo and the id 5 * 10^9 was rejected for the
\* username
C30_Witness ==
    /\ lastCall.op = "check_user_filter"
    /\ lastCall.settings.filter_no_username
    /\ lastCall.settings.filter_no_avatar
    /\ lastCall.settings.min_account_age_days = 31
    /\ lastCall.user = [ username |-> "", photo |-> FALSE,
                         id |-> [ giga |-> 5, rest |-> 0 ] ]
    /\ lastCall.ret = [ ok |-> FALSE, reason |-> "no_username" ]

\* with a minimum age of 181 days the sender with the id 5 * 10^9 - 1 was
\* rejected for the age
C30_WitnessAge ==
    /\ lastCall.op = "check_user_filter"
    /\ lastCall.settings.min_account_age_days = 181
    /\ lastCall.user.id = [ giga |-> 4, rest |-> Giga - 1 ]
    /\ lastCall.ret = [ ok |-> FALSE, reason |-> "age" ]

----------------------------------------------------------------------------
(* The keyword list under add_keywords and remove_keyword (SpecKeywords) *)

\* C31: the keyword list never holds an entry twice, an empty entry or an
\* entry of more than 10 characters; a step keeps the entries that stay
\* in the order they had, and puts the entries it adds after them.
C31_KeywordListWellFormed ==
    /\ [](/\ \A i, j \in 1..Len(keywords) : keywords[i] = keywords[j] => i = j
          /\ \A i \in 1..Len(keywords) :
                keywords[i] # << >> /\ Len(keywords[i]) <= 10)
    /\ [][ /\ SelectSeq(keywords', LAMBDA k : \E i \in 1..Len(keywords) : keywords[i] = k)
               = SelectSeq(keywords, LAMBDA k : \E i \in 1..Len(keywords') : keywords'[i] = k)
           /\ \A i, j \in 1..Len(keywords') :
                ( /\ \E m \in 1..Len(keywords) : keywords[m] = keywords'[i]
                  /\ \A m \in 1..Len(keywords) : keywords[m] # keywords'[j] ) => i < j
         ]_vars

\* a call with a padded keyword and one of 11 characters on a list that
\* holds a keyword of 10 characters added the first after it
C31_Witness ==
    /\ kwCall.pre = << Rep("b", 10) >>
    /\ kwCall.arg = << << " ", "a", " " >>, Rep("a", 11) >>
    /\ kwCall.ret = 1
    /\ keywords = << Rep("b", 10), << "a" >> >>


(***************************************************************************)
(* The monitoring identity named by records and alerts (SpecStartup)       *)
(***************************************************************************)

\* C32: every trigger record and every alert names as monitoring identity
\* the identity whose stream delivered the event, also when several
\* monitoring identities were started by start_multi_account_clients
C32_RecordNamesDeliveringIdentity ==
    /\ \A i \in 1..Len(alerts) : alerts[i].monitor_account = alerts[i].mon
    /\ \A i \in 1..Len(records) : records[i].monitor_account = records[i].mon

(***************************************************************************)
(* The state of the pool and of the settings when a send starts            *)
(* (SpecRecheck).  A task that passes from the delay to the send calls     *)
(* _send_dm_by_template in that step.                                      *)
(***************************************************************************)

\* C33: no send is executed through an identity whose status is not active
\* at the moment of the send: an identity that a status re-check moved away
\* from active during the delay of the attempt is not used by it
C33_SendOnlyThroughActiveIdentity ==
    [][ \A t \in TaskIds :
          ( tasks[t].pc = "delay" /\ tasks'[t].pc = "sending" )
              => /\ HasAccount(accounts, tasks[t].phone)
                 /\ AccountOf(tasks[t].phone).status = "active" ]_vars

\* C34: every send happens while the feature is enabled and the local hour
\* is inside the active window: an attempt whose delay carries it past the
\* end of the window, or during whose delay the switch was turned off, does
\* not send
C34_SendOnlyEnabledInsideWindow ==
    [][ \A t \in TaskIds :
          ( tasks[t].pc = "delay" /\ tasks'[t].pc = "sending" )
              => /\ dmSettings.enabled
                 /\ IsActiveHour(dmSettings, nowHour) ]_vars

(***************************************************************************)
(* Cooldown entries and their alerts (SpecIngest)                          *)
(***************************************************************************)

\* the (user, keyword) pair a handler suspended in the alert sink is
\* alerting
PairInAlert(h) == << inbox[h[2]].sender.id, handlers[h].matched[handlers[h].ki] >>

\* C35: a (user, keyword) pair is in cooldown only together with its alert:
\* whenever a cooldown entry is set and no handler is still publishing for
\* it, the alert of the pair has been published and its record persisted;
\* and a handler whose alert failed has still evaluated the matched
\* keywords after the failing one
C35_CooldownOnlyWithAlert ==
    /\ \A i \in 1..Len(cooldown) :
          \/ \E h \in HandlerIds :
                handlers[h].pc = "alert" /\ PairInAlert(h) = cooldown[i].key
          \/ /\ \E a \in 1..Len(alerts) :
                    << alerts[a].user, alerts[a].keyword >> = cooldown[i].key
             /\ \E r \in 1..Len(records) :
                    << records[r].user, records[r].keyword >> = cooldown[i].key
    /\ \A h \in HandlerIds :
          ( handlers[h].gate = "error" /\ handlers[h].ki > 0 )
              => \A j \in (handlers[h].ki + 1)..Len(handlers[h].matched) :
                    \/ handlers[h].matched[j] \in handlers[h].skipped
                    \/ \E a \in 1..Len(alerts) :
                          /\ alerts[a].mon = h[1] /\ alerts[a].ev = h[2]
                          /\ alerts[a].keyword = handlers[h].matched[j]

(***************************************************************************)
(* A message seen by several monitoring identities (SpecStartup)           *)
(***************************************************************************)

\* the handlers of an event
HandlersOf(e) == { h \in HandlerIds : h[2] = e }

\* C36: a message that passes every filter and matches a keyword that is
\* not in cooldown (its sender wrote no other message, and no alert of the
\* message was lost in the sink) is alerted once all the handlers that
\* observed it have ended and one of them ran to completion, also when
\* the handler of another monitoring identity failed in the sender lookup
\* after it had marked the message in the dedup gate
C36_ObservedMessageAlerted ==
    \A e \in EventIds :
        ( /\ GateOf(inbox[e]) = "none"
          /\ \A x \in EventIds \ { e } : inbox[x].sender # inbox[e].sender
          /\ \A h \in HandlersOf(e) : handlers[h].pc = "done"
          /\ \A h \in HandlersOf(e) : handlers[h].gate = "error" => handlers[h].ki = 0
          /\ \E h \in HandlersOf(e) : handlers[h].gate # "error" )
            => \E a \in 1..Len(alerts) : alerts[a].ev = e

(***************************************************************************)
(* The daily counter and the success records (SpecCounter)                 *)
(***************************************************************************)

\* the success records of today that name the identity
SuccessToday(recs, phone, now) ==
    { i \in 1..Len(recs) : /\ recs[i].status = "success"
                            /\ recs[i].phone = phone
                            /\ DayOf(recs[i].at) = DayOf(now) }

\* C37: for every identity of the pool, whenever its last-send date is
\* today its daily counter is the number of success records of today that
\* name it; and the registry entry, the increment of the counter and the
\* success record of one send are committed in one step
C37_CounterMatchesRecords ==
    /\ [](\A i \in 1..Len(accounts) :
            accounts[i].last_sent_date = DayOf(nowHour)
                => accounts[i].daily_sent =
                       Cardinality(SuccessToday(dmRecords, accounts[i].phone, nowHour)))
    /\ [][ LET grown == /\ Len(dmRecords') = Len(dmRecords) + 1
                        /\ dmRecords'[Len(dmRecords')].status = "success"
               counted(i) == /\ accounts'[i] # accounts[i]
                             /\ accounts'[i].status = accounts[i].status
                             /\ accounts'[i].daily_sent # 0
               count == \E i \in 1..Len(accounts) : counted(i)
               entry == \E u \in UserIds :
                          sentUsers'[u] # sentUsers[u] /\ sentUsers'[u] # NoTime
           IN  /\ grown <=> count
               /\ entry => grown
               /\ grown => LET r == dmRecords'[Len(dmRecords')]
                           IN  /\ sentUsers'[r.user] = r.at
                               /\ \A i \in 1..Len(accounts) :
                                     counted(i) <=> accounts[i].phone = r.phone ]_vars

\* on the second day the first identity has sent once today and once the
\* day before, and its counter is 1
C37_Witness ==
    /\ DayOf(nowHour) = 1
    /\ accounts[1].last_sent_date = 1
    /\ accounts[1].daily_sent = 1
    /\ Cardinality(SuccessToday(dmRecords, "p1", nowHour)) = 1
    /\ \E i \in 1..Len(dmRecords) :
          dmRecords[i].status = "success" /\ dmRecords[i].phone = "p1"
              /\ DayOf(dmRecords[i].at) = 0

(***************************************************************************)
(* The classifier on the patterns of its table (SpecPatterns)              *)
(***************************************************************************)

\* C38: a reply that consists of one pattern of the table alone is
\* classified with the status of the category the pattern is listed under
\* (active for the geo notice), and the can-send flag is true exactly when
\* the returned status is active
C38_PatternClassifiesToItsCategory ==
    verdict # NoVerdict =>
        /\ verdict[2] <=> verdict[1] = "active"
        /\ \A c \in 1..Len(PatternTable) :
              \A i \in 1..Len(PatternTable[c].patterns) :
                  Lower(reply) = Lower(PatternTable[c].patterns[i])
                      => verdict[1] = PatternTable[c].status

(***************************************************************************)
(* get_random_sticker (SpecStickers)                                       *)
(***************************************************************************)

\* C39: get_random_sticker terminates for every configuration, also when
\* every configured set fails to load or holds no sticker: a pass that
\* follows the clearing of the used-set gives a sticker, so no call begins
\* a third pass; it never returns a sticker it returned since the used-set
\* was last cleared; and the used-set is cleared only when no unused
\* sticker is left in a loadable set
C39_StickerCallTerminates ==
    /\ stickers.depth <= 2
    /\ ~stickers.again
    /\ stickers.left = {}

====
